---- MODULE Spec2Model ----
(***************************************************************************)
(* A model of the cruddl domain model (Field), its relation resolution and *)
(* validation, the field-access compiler (createFieldNode) and the update  *)
(* input generator (UpdateInputTypeGenerator and its input fields).        *)
(***************************************************************************)
EXTENDS Integers, Sequences, FiniteSets, TLC

VARIABLES
    types,      \* the model: type name -> [kind, fields, keyFieldName]
    resolved,   \* Field.relationSide as observed by callers, per field
    position,   \* number of fields of the model already validated
    messages,   \* ValidationContext: the messages added so far
    fault,      \* the error thrown out of validation, if any
    compiled,   \* the last createFieldNode call: field, source node, result
    generator,  \* UpdateInputTypeGenerator: its memos and the input types it made
    returned,   \* every (type, input type) a generate... call has returned so far
    lastCall,   \* the last generator call: method, type, result or error
    applied     \* the last getProperties / collectAffectedFields call

vars == <<types, resolved, position, messages, fault, compiled,
          generator, returned, lastCall, applied>>

----------------------------------------------------------------------------
(* Bounds of the input universe *)

\* number of fields declared on the target type U of the relation models
MaxTargetFields == 2

\* largest number of calc mutation operators declared on one field
MaxOperators == 2

----------------------------------------------------------------------------
(* Values *)

\* JavaScript undefined, for names (strings) and for objects (records)
UndefName == "<undefined>"
Undefined == [kind |-> "undefined"]

ROOT_ENTITY == "ROOT_ENTITY"
CHILD_ENTITY == "CHILD_ENTITY"
ENTITY_EXTENSION == "ENTITY_EXTENSION"
VALUE_OBJECT == "VALUE_OBJECT"
SCALAR == "SCALAR"
ENUM == "ENUM"

ID_FIELD == "id"

\* new Field(input, declaringType) with every optional input left out
NewField(declaringType, name, typeName) ==
    [declaringType |-> declaringType, name |-> name, typeName |-> typeName,
     isList |-> FALSE, isReference |-> FALSE, isRelation |-> FALSE,
     isSystemField |-> FALSE, inverseOfFieldName |-> UndefName,
     calcMutationOperators |-> <<>>, defaultValue |-> UndefName,
     permissionProfileName |-> UndefName, roles |-> UndefName]

\* a type of the model
NewType(kind, fields, keyFieldName) ==
    [kind |-> kind, fields |-> fields, keyFieldName |-> keyFieldName]

Range(s) == {s[i] : i \in DOMAIN s}

\* the type names a model may declare, in declaration order
TypeOrder ==
    <<"T", "U", "D", "R", "K", "V", "E", "C", "ID", "Int", "String", "Boolean", "Color">>

\* every field of the model: types in declaration order, each type's fields in
\* declaration order
RECURSIVE FlattenFields(_)
FlattenFields(names) ==
    IF names = <<>> THEN <<>>
    ELSE (IF Head(names) \in DOMAIN types THEN types[Head(names)].fields ELSE <<>>)
         \o FlattenFields(Tail(names))

AllFieldsSeq == FlattenFields(TypeOrder)
AllFields == Range(AllFieldsSeq)

----------------------------------------------------------------------------
(* Model and Type lookups *)

\* Model.getType: the type of that name, if the model has one
getType(typeName) ==
    IF typeName \in DOMAIN types THEN typeName ELSE UndefName

\* Type.kind; Model.getTypeOrFallback yields a scalar placeholder for a
\* name that does not resolve
kind(type) ==
    IF type \in DOMAIN types THEN types[type].kind ELSE SCALAR

isRootEntityType(type) == kind(type) = ROOT_ENTITY
isChildEntityType(type) == kind(type) = CHILD_ENTITY
isEntityExtensionType(type) == kind(type) = ENTITY_EXTENSION
isValueObjectType(type) == kind(type) = VALUE_OBJECT
isScalarType(type) == kind(type) = SCALAR
isEnumType(type) == kind(type) = ENUM
isObjectType(type) ==
    kind(type) \in {ROOT_ENTITY, CHILD_ENTITY, ENTITY_EXTENSION, VALUE_OBJECT}

\* ObjectType.fields
fieldsOf(type) ==
    IF type \in DOMAIN types /\ isObjectType(type) THEN types[type].fields ELSE <<>>

\* Array.prototype.find: the first element satisfying the predicate
Find(s, P(_)) ==
    IF \E i \in DOMAIN s : P(s[i])
    THEN s[CHOOSE i \in DOMAIN s : P(s[i]) /\ \A j \in 1..(i-1) : ~P(s[j])]
    ELSE Undefined

\* Array.prototype.filter
Filter(s, P(_)) == SelectSeq(s, P)

\* ObjectType.getField
getField(type, name) ==
    LET named(f) == f.name = name IN Find(fieldsOf(type), named)

\* RootEntityType.keyField
keyField(type) ==
    IF type \in DOMAIN types /\ types[type].keyFieldName # UndefName
    THEN getField(type, types[type].keyFieldName)
    ELSE Undefined

----------------------------------------------------------------------------
(* Field: derived properties *)

\* Field.type
typeOf(field) == field.typeName

hasValidType(field) == getType(field.typeName) # UndefName

inverseOf(field) ==
    IF field.inverseOfFieldName = UndefName THEN Undefined
    ELSE IF ~isObjectType(typeOf(field)) THEN Undefined
    ELSE getField(typeOf(field), field.inverseOfFieldName)

inverseField(field) ==
    LET namesThis(f) == inverseOf(f) = field
    IN  IF isObjectType(typeOf(field))
        THEN Find(fieldsOf(typeOf(field)), namesThis)
        ELSE Undefined

\* the to side computed without the declared inverse as fromField
relationSide_toSideOfItself(field) ==
    IF ~field.isRelation \/ ~isRootEntityType(field.declaringType)
        \/ ~isRootEntityType(typeOf(field))
    THEN Undefined
    ELSE IF inverseOf(field) # Undefined
    THEN [kind |-> "RelationSide", side |-> "to",
          relation |-> [fromType |-> typeOf(field), fromField |-> field,
                        toType |-> field.declaringType, toField |-> field]]
    ELSE [kind |-> "RelationSide", side |-> "from",
          relation |-> [fromType |-> field.declaringType, fromField |-> field,
                        toType |-> typeOf(field), toField |-> inverseField(field)]]

relationSide(field) ==
    IF ~field.isRelation \/ ~isRootEntityType(field.declaringType)
        \/ ~isRootEntityType(typeOf(field))
    THEN Undefined
    ELSE IF inverseOf(field) # Undefined
    THEN \* this is the to side
         [kind |-> "RelationSide", side |-> "to",
          relation |-> [fromType |-> typeOf(field), fromField |-> inverseOf(field),
                        toType |-> field.declaringType, toField |-> field]]
    ELSE \* this is the from side
         [kind |-> "RelationSide", side |-> "from",
          relation |-> [fromType |-> field.declaringType, fromField |-> field,
                        toType |-> typeOf(field), toField |-> inverseField(field)]]

relation(field) ==
    IF relationSide(field) = Undefined THEN Undefined
    ELSE relationSide(field).relation

----------------------------------------------------------------------------
(* The relation models: root entity types T (field a) and U (fields b, c,  *)
(* ...), every field a relation or not, targeting T or U, with or without a *)
(* declared inverse.                                                       *)

TargetFieldNames == SubSeq(<<"b", "c", "d", "e">>, 1, MaxTargetFields)

SourceFieldConfigs ==
    { [NewField("T", "a", tn) EXCEPT !.isRelation = r, !.inverseOfFieldName = inv] :
        tn \in {"T", "U"}, r \in BOOLEAN,
        inv \in {UndefName, "a", "zz"} \cup Range(TargetFieldNames) }

TargetFieldConfigs(name) ==
    { [NewField("U", name, tn) EXCEPT !.isRelation = r, !.inverseOfFieldName = inv] :
        tn \in {"T", "U"}, r \in BOOLEAN, inv \in {UndefName, "a"} }

\* every way to configure the fields names[1..n] of U
RECURSIVE TargetFieldSeqs(_)
TargetFieldSeqs(names) ==
    IF names = <<>> THEN {<<>>}
    ELSE { <<f>> \o rest : f \in TargetFieldConfigs(Head(names)),
                           rest \in TargetFieldSeqs(Tail(names)) }

RelationModels ==
    { [T |-> NewType(ROOT_ENTITY, <<a>>, UndefName),
       U |-> NewType(ROOT_ENTITY, bs, UndefName)] :
        a \in SourceFieldConfigs, bs \in TargetFieldSeqs(TargetFieldNames) }

Unresolved == [kind |-> "unresolved"]
NoFault == [kind |-> "none"]
NotCompiled == [kind |-> "notCompiled"]
NoCall == [kind |-> "noCall"]

\* new UpdateInputTypeGenerator(...): nothing memoized, no input type made
NewGenerator == [memo |-> [key \in {} |-> 0], heap |-> [id \in {} |-> 0]]

----------------------------------------------------------------------------
(* Relation resolution *)

InitRelation ==
    /\ types \in RelationModels
    /\ resolved = [f \in AllFields |-> Unresolved]
    /\ position = 0
    /\ messages = <<>>
    /\ fault = NoFault
    /\ compiled = NotCompiled
    /\ generator = NewGenerator
    /\ returned = {}
    /\ lastCall = NoCall
    /\ applied = NoCall

\* a caller reads field.relationSide (and, through it, field.relation)
ResolveRelationSide(field) ==
    /\ resolved[field] = Unresolved
    /\ resolved' = [resolved EXCEPT ![field] = relationSide(field)]
    /\ UNCHANGED <<types, position, messages, fault, compiled,
                   generator, returned, lastCall, applied>>

NextRelation == \E field \in AllFields : ResolveRelationSide(field)

SpecRelation == InitRelation /\ [][NextRelation]_vars

----------------------------------------------------------------------------
(* Validation messages *)

\* ValidationMessage.error / warn / info (text, location); the text is the
\* message template, args the values filled into it
Message(severity, text, args, location) ==
    [severity |-> severity, text |-> text, args |-> args, location |-> location]

\* this.astNode
astNode(field) == [field |-> field, node |-> "field"]
\* this.input.<x>ASTNode || this.astNode, the specific node being present
astNodeOf(field, node) == [field |-> field, node |-> node]

\* String predicates on the field names of the universe
NamesStartingWithUnderscore == {"_p"}
NamesIncludingUnderscore == {"_p", "p_q"}
NamesNotStartingLowercase == {"P", "_p", ""}

\* the permission profiles of the namespace
PermissionProfiles == {"default"}

\* CALC_MUTATIONS_OPERATORS of schema/constants
CALC_MUTATIONS_OPERATORS ==
    << [name |-> "MULTIPLY", prefix |-> "multiplyWith_", supportedTypes |-> {"Int", "Float"}],
       [name |-> "ADD", prefix |-> "addTo_", supportedTypes |-> {"Int", "Float"}],
       [name |-> "APPEND", prefix |-> "appendTo_", supportedTypes |-> {"String"}] >>

----------------------------------------------------------------------------
(* Field.validate *)

validateName(field) ==
    IF field.name = ""
    THEN << Message("error", "Field name is empty.", <<>>, astNode(field)) >>
    ELSE IF field.name \in NamesStartingWithUnderscore
    THEN << Message("error", "Field names cannot start with an underscore.", <<>>, astNode(field)) >>
    ELSE IF field.name \in NamesIncludingUnderscore
    THEN << Message("warn", "Field names should not include underscores.", <<>>, astNode(field)) >>
    ELSE IF field.name \in NamesNotStartingLowercase
    THEN << Message("warn", "Field names should start with a lowercase character.", <<>>, astNode(field)) >>
    ELSE <<>>

validateType(field) ==
    IF getType(field.typeName) = UndefName
    THEN << Message("error", "Type not found.", <<field.typeName>>, astNodeOf(field, "typeName")) >>
    ELSE <<>>

validatePermissions(field) ==
    (IF field.permissionProfileName # UndefName /\ field.roles # UndefName
     THEN << Message("error", "Permission profile and explicit role specifiers cannot be combined.",
                     <<>>, astNodeOf(field, "permissionProfileName")),
             Message("error", "Permission profile and explicit role specifiers cannot be combined.",
                     <<>>, astNodeOf(field, "roles")) >>
     ELSE <<>>)
    \o
    (IF field.permissionProfileName # UndefName /\ field.permissionProfileName \notin PermissionProfiles
     THEN << Message("error", "Permission profile not found.", <<field.permissionProfileName>>,
                     astNodeOf(field, "permissionProfileName")) >>
     ELSE <<>>)

validateRootEntityType(field) ==
    (IF field.isReference /\ field.isRelation
     THEN << Message("error", "@reference and @relation cannot be combined.", <<>>, astNode(field)) >>
     ELSE <<>>)
    \o
    (IF kind(typeOf(field)) # ROOT_ENTITY THEN <<>>
     ELSE IF ~field.isRelation /\ ~field.isReference
     THEN IF kind(field.declaringType) = VALUE_OBJECT
          THEN << Message("error", "is a root entity type and cannot be embedded. Consider adding @reference.",
                          <<typeOf(field)>>, astNode(field)) >>
          ELSE << Message("error", "is a root entity type and cannot be embedded. Consider adding @reference or @relation.",
                          <<typeOf(field)>>, astNode(field)) >>
     ELSE <<>>)

\* the check of the inverse's own inverse left out
validateExplicitInverse_noChainCheck(field) ==
    LET inverse == getField(typeOf(field), field.inverseOfFieldName)
        desc == <<typeOf(field), field.inverseOfFieldName, field.declaringType, field.name>>
        at == astNodeOf(field, "inverseOf")
    IN  IF inverse = Undefined
        THEN << Message("error", "does not exist on type", <<field.inverseOfFieldName, typeOf(field)>>, at) >>
        ELSE IF typeOf(inverse) # field.declaringType
        THEN << Message("error", "has named type but should be of type",
                        desc \o <<typeOf(inverse), field.declaringType>>, at) >>
        ELSE IF ~inverse.isRelation
        THEN << Message("error", "does not have the @relation directive.", desc, at) >>
        ELSE <<>>

\* the branch of validateRelation for a field with inverseOfFieldName
\* a named inverse of the inverse field counted as declared without being
\* resolved
validateExplicitInverse_namedCountsAsDeclared(field) ==
    LET inverse == getField(typeOf(field), field.inverseOfFieldName)
        desc == <<typeOf(field), field.inverseOfFieldName, field.declaringType, field.name>>
        at == astNodeOf(field, "inverseOf")
    IN  IF inverse = Undefined
        THEN << Message("error", "does not exist on type", <<field.inverseOfFieldName, typeOf(field)>>, at) >>
        ELSE IF typeOf(inverse) # field.declaringType
        THEN << Message("error", "has named type but should be of type",
                        desc \o <<typeOf(inverse), field.declaringType>>, at) >>
        ELSE IF ~inverse.isRelation
        THEN << Message("error", "does not have the @relation directive.", desc, at) >>
        ELSE IF inverse.inverseOfFieldName # UndefName
        THEN << Message("error", "should not declare inverseOf itself.", desc, at) >>
        ELSE <<>>

validateExplicitInverse(field) ==
    LET inverse == getField(typeOf(field), field.inverseOfFieldName)
        desc == <<typeOf(field), field.inverseOfFieldName, field.declaringType, field.name>>
        at == astNodeOf(field, "inverseOf")
    IN  IF inverse = Undefined
        THEN << Message("error", "does not exist on type", <<field.inverseOfFieldName, typeOf(field)>>, at) >>
        ELSE IF typeOf(inverse) # field.declaringType
        THEN << Message("error", "has named type but should be of type",
                        desc \o <<typeOf(inverse), field.declaringType>>, at) >>
        ELSE IF ~inverse.isRelation
        THEN << Message("error", "does not have the @relation directive.", desc, at) >>
        ELSE IF inverseOf(inverse) # Undefined
        THEN << Message("error", "should not declare inverseOf itself.", desc, at) >>
        ELSE <<>>

\* several inverse fields reported once, on the first of them
validateImplicitInverse_firstOnly(field) ==
    LET namesThis(f) == inverseOf(f) = field
        inverseFields == Filter(fieldsOf(typeOf(field)), namesThis)
        matches(f) == f.isRelation /\ typeOf(f) = field.declaringType
                        /\ f.inverseOfFieldName = UndefName
        matchingRelation == Find(fieldsOf(typeOf(field)), matches)
        names == [i \in DOMAIN inverseFields |-> <<typeOf(field), inverseFields[i].name>>]
    IN  IF Len(inverseFields) = 0
        THEN IF matchingRelation # Undefined
             THEN << Message("warn", "define separate relations.",
                             <<matchingRelation.declaringType, matchingRelation.name>>, astNode(field)) >>
             ELSE <<>>
        ELSE IF Len(inverseFields) > 1
        THEN << Message("error", "Multiple fields declare inverseOf to",
                        <<names, field.declaringType, field.name>>, astNode(inverseFields[1])) >>
        ELSE <<>>

\* the branch of validateRelation for a field without inverseOfFieldName
validateImplicitInverse(field) ==
    LET namesThis(f) == inverseOf(f) = field
        inverseFields == Filter(fieldsOf(typeOf(field)), namesThis)
        matches(f) == f.isRelation /\ typeOf(f) = field.declaringType
                        /\ f.inverseOfFieldName = UndefName
        matchingRelation == Find(fieldsOf(typeOf(field)), matches)
        names == [i \in DOMAIN inverseFields |-> <<typeOf(field), inverseFields[i].name>>]
    IN  IF Len(inverseFields) = 0
        THEN IF matchingRelation # Undefined
             THEN << Message("warn", "define separate relations.",
                             <<matchingRelation.declaringType, matchingRelation.name>>, astNode(field)) >>
             ELSE <<>>
        ELSE IF Len(inverseFields) > 1
        THEN [i \in DOMAIN inverseFields |->
                Message("error", "Multiple fields declare inverseOf to",
                        <<names, field.declaringType, field.name>>, astNode(inverseFields[i]))]
        ELSE <<>>

validateRelation(field) ==
    IF ~field.isRelation THEN <<>>
    ELSE
        (IF kind(field.declaringType) # ROOT_ENTITY
         THEN << Message("error", "Relations can only be defined on root entity types.", <<>>, astNode(field)) >>
         ELSE <<>>)
        \o
        (IF ~hasValidType(field) THEN <<>>
         ELSE IF kind(typeOf(field)) # ROOT_ENTITY
         THEN << Message("error", "cannot be used with @relation because it is not a root entity type.",
                         <<typeOf(field)>>, astNode(field)) >>
         ELSE IF field.inverseOfFieldName # UndefName
         THEN validateExplicitInverse(field)
         ELSE validateImplicitInverse(field))

\* the checks of the target type done although the type was not found
validateReference_typeNotChecked(field) ==
    IF ~field.isReference THEN <<>>
    ELSE IF kind(typeOf(field)) # ROOT_ENTITY
    THEN << Message("error", "cannot be used as @reference type because is not a root entity type.",
                    <<typeOf(field)>>, astNode(field)) >>
    ELSE <<>>

validateReference(field) ==
    IF ~field.isReference THEN <<>>
    ELSE IF ~hasValidType(field) THEN <<>>
    ELSE IF kind(typeOf(field)) # ROOT_ENTITY
    THEN << Message("error", "cannot be used as @reference type because is not a root entity type.",
                    <<typeOf(field)>>, astNode(field)) >>
    ELSE
        (IF field.isList
         THEN << Message("error", "@reference is not supported with list types.", <<>>, astNode(field)) >>
         ELSE <<>>)
        \o
        (IF keyField(typeOf(field)) = Undefined
         THEN << Message("error", "cannot be used as @reference type because it does not have a field annotated with @key.",
                         <<typeOf(field)>>, astNode(field)) >>
         ELSE <<>>)

validateEntityExtensionType(field) ==
    IF kind(typeOf(field)) # ENTITY_EXTENSION THEN <<>>
    ELSE IF kind(field.declaringType) = VALUE_OBJECT
    THEN << Message("error", "is an entity extension type and cannot be used within value object types.",
                    <<typeOf(field), field.declaringType, field.name>>, astNode(field)) >>
    ELSE IF field.isList
    THEN << Message("error", "is an entity extension type and cannot be used in a list.",
                    <<typeOf(field)>>, astNode(field)) >>
    ELSE <<>>

validateChildEntityType(field) ==
    IF kind(typeOf(field)) # CHILD_ENTITY THEN <<>>
    ELSE IF kind(field.declaringType) = VALUE_OBJECT
    THEN << Message("error", "is a child entity type and cannot be used within value object types.",
                    <<typeOf(field), field.declaringType, field.name>>, astNode(field)) >>
    ELSE IF ~field.isList
    THEN << Message("error", "is a child entity type and can only be used in a list.",
                    <<typeOf(field)>>, astNode(field)) >>
    ELSE <<>>

validateDefaultValue(field) ==
    IF field.defaultValue = UndefName THEN <<>>
    ELSE IF field.isRelation
    THEN << Message("error", "Default values are not supported on relations.", <<>>,
                    astNodeOf(field, "defaultValue")) >>
    ELSE << Message("info", "Take care, there are no type checks for default values yet.", <<>>,
                    astNodeOf(field, "defaultValue")) >>

\* CALC_MUTATIONS_OPERATORS.filter(op => op.supportedTypes.includes(type.name)),
\* mapped to the operators' names
supportedOperators(typeName) ==
    LET supports(op) == typeName \in op.supportedTypes
        ops == Filter(CALC_MUTATIONS_OPERATORS, supports)
    IN  [i \in DOMAIN ops |-> ops[i].name]

\* CALC_MUTATIONS_OPERATORS.find(op => op.name == operator)
findOperator(operator) ==
    LET named(op) == op.name = operator IN Find(CALC_MUTATIONS_OPERATORS, named)

\* an operator that is not in the table reported as a message, not thrown
RECURSIVE validateOperators_unknownReported(_, _)
validateOperators_unknownReported(field, operators) ==
    IF operators = <<>> THEN [messages |-> <<>>, fault |-> NoFault]
    ELSE LET operator == Head(operators)
             desc == findOperator(operator)
             rest == validateOperators_unknownReported(field, Tail(operators))
             here == IF desc = Undefined
                     THEN << Message("error", "Unknown calc mutation operator",
                                     <<operator>>, astNode(field)) >>
                     ELSE IF typeOf(field) \notin desc.supportedTypes
                     THEN << Message("error", "Calc mutation operator is not supported on type (supported operators).",
                                     <<operator, typeOf(field), supportedOperators(typeOf(field))>>,
                                     astNode(field)) >>
                     ELSE <<>>
         IN  [messages |-> here \o rest.messages, fault |-> NoFault]

\* the loop over the declared operators: the messages added, and the error
\* thrown at the first operator that is not in the table
RECURSIVE validateOperators(_, _)
validateOperators(field, operators) ==
    IF operators = <<>> THEN [messages |-> <<>>, fault |-> NoFault]
    ELSE LET operator == Head(operators)
             desc == findOperator(operator)
         IN  IF desc = Undefined
             THEN [messages |-> <<>>,
                   fault |-> [kind |-> "Error", text |-> "Unknown calc mutation operator",
                              args |-> <<operator>>]]
             ELSE LET rest == validateOperators(field, Tail(operators))
                      here == IF typeOf(field) \notin desc.supportedTypes
                              THEN << Message("error", "Calc mutation operator is not supported on type (supported operators).",
                                              <<operator, typeOf(field), supportedOperators(typeOf(field))>>,
                                              astNode(field)) >>
                              ELSE <<>>
                  IN  [messages |-> here \o rest.messages, fault |-> rest.fault]

\* the check of list fields left out
validateCalcMutations_listsAllowed(field) ==
    IF Len(field.calcMutationOperators) = 0 THEN [messages |-> <<>>, fault |-> NoFault]
    ELSE IF Len(supportedOperators(typeOf(field))) = 0
    THEN [messages |-> << Message("error", "does not support any calc mutation operators.",
                                  <<typeOf(field)>>, astNode(field)) >>,
          fault |-> NoFault]
    ELSE validateOperators(field, field.calcMutationOperators)

validateCalcMutations(field) ==
    IF Len(field.calcMutationOperators) = 0 THEN [messages |-> <<>>, fault |-> NoFault]
    ELSE IF field.isList
    THEN [messages |-> << Message("error", "Calc mutations are not supported on list fields.",
                                  <<>>, astNode(field)) >>,
          fault |-> NoFault]
    ELSE IF Len(supportedOperators(typeOf(field))) = 0
    THEN [messages |-> << Message("error", "does not support any calc mutation operators.",
                                  <<typeOf(field)>>, astNode(field)) >>,
          fault |-> NoFault]
    ELSE validateOperators(field, field.calcMutationOperators)

\* Field.validate: the messages it adds to the context, in order, and the
\* error it throws, if any
validate(field) ==
    LET calc == validateCalcMutations(field)
    IN  [messages |-> validateName(field) \o validateType(field)
                        \o validatePermissions(field) \o validateRootEntityType(field)
                        \o validateEntityExtensionType(field) \o validateChildEntityType(field)
                        \o validateRelation(field) \o validateReference(field)
                        \o validateDefaultValue(field) \o calc.messages,
         fault |-> calc.fault]

----------------------------------------------------------------------------
(* The probe models: one field p, of every shape, on a declaring type D of *)
(* every object kind, beside a keyed root entity type R, a root entity    *)
(* type K without key, and one type of every other kind.                  *)

OperatorNames == {"ADD", "APPEND", "POWER"}

\* duplicate-free sequences of at most n operator names (the field keeps the
\* declared operators as a Set, in insertion order)
RECURSIVE OperatorSeqs(_)
OperatorSeqs(n) ==
    IF n = 0 THEN {<<>>}
    ELSE LET shorter == OperatorSeqs(n - 1)
         IN  shorter \cup { Append(s, op) : s \in shorter, op \in OperatorNames }

DuplicateFree(s) == \A i, j \in DOMAIN s : i # j => s[i] # s[j]

CalcOperatorLists == { s \in OperatorSeqs(MaxOperators) : DuplicateFree(s) }

ProbeTypeNames == {"R", "K", "V", "E", "C", "Int", "String", "Boolean", "Color", "Missing"}

ProbeFieldConfigs ==
    { [NewField("D", "p", tn) EXCEPT !.isList = l, !.isReference = ref, !.isRelation = rel,
                                     !.calcMutationOperators = ops] :
        tn \in ProbeTypeNames, l \in BOOLEAN, ref \in BOOLEAN, rel \in BOOLEAN,
        ops \in CalcOperatorLists }

OtherTypes(q) ==
    [R |-> NewType(ROOT_ENTITY, <<NewField("R", "key", "String"), q>>, "key"),
     K |-> NewType(ROOT_ENTITY, <<>>, UndefName),
     V |-> NewType(VALUE_OBJECT, <<NewField("V", "x", "Int")>>, UndefName),
     E |-> NewType(ENTITY_EXTENSION, <<NewField("E", "y", "Int")>>, UndefName),
     C |-> NewType(CHILD_ENTITY, <<NewField("C", "z", "Int")>>, UndefName),
     Int |-> NewType(SCALAR, <<>>, UndefName),
     String |-> NewType(SCALAR, <<>>, UndefName),
     Boolean |-> NewType(SCALAR, <<>>, UndefName),
     Color |-> NewType(ENUM, <<>>, UndefName)]

ObjectKinds == {ROOT_ENTITY, CHILD_ENTITY, ENTITY_EXTENSION, VALUE_OBJECT}

ProbeModels ==
    { [D |-> NewType(k, <<p>>, UndefName)] @@ OtherTypes(NewField("R", "q", "Int")) :
        k \in ObjectKinds, p \in ProbeFieldConfigs }

\* the probe with a name, a default value or permissions of every shape
CosmeticFieldConfigs ==
    { [NewField("D", n, "Int") EXCEPT !.isRelation = rel, !.defaultValue = dv,
                                      !.permissionProfileName = pp, !.roles = ro] :
        n \in {"p", "", "_p", "p_q", "P"}, rel \in BOOLEAN, dv \in {UndefName, "1"},
        pp \in {UndefName, "default", "missing"}, ro \in {UndefName, "roles"} }

CosmeticModels ==
    { [D |-> NewType(ROOT_ENTITY, <<p>>, UndefName)] @@ OtherTypes(NewField("R", "q", "Int")) :
        p \in CosmeticFieldConfigs }

----------------------------------------------------------------------------
(* Validation of the model *)

InitValidate ==
    /\ types \in RelationModels \cup ProbeModels \cup CosmeticModels
    /\ resolved = <<>>
    /\ position = 0
    /\ messages = <<>>
    /\ fault = NoFault
    /\ compiled = NotCompiled
    /\ generator = NewGenerator
    /\ returned = {}
    /\ lastCall = NoCall
    /\ applied = NoCall

\* the model validates its next field; an error thrown by it ends the pass
ValidateField ==
    /\ fault = NoFault
    /\ position < Len(AllFieldsSeq)
    /\ LET result == validate(AllFieldsSeq[position + 1])
       IN  /\ messages' = messages \o result.messages
           /\ fault' = result.fault
    /\ position' = position + 1
    /\ UNCHANGED <<types, resolved, compiled, generator, returned, lastCall, applied>>

NextValidate == ValidateField

SpecValidate == InitValidate /\ [][NextValidate]_vars

\* the whole model has been validated
Validated == position = Len(AllFieldsSeq) /\ fault = NoFault

\* the number of messages of the context that satisfy P
CountMessages(P(_)) == Cardinality({i \in DOMAIN messages : P(messages[i])})

----------------------------------------------------------------------------
(* Query tree nodes *)

Throw(text, args) == [kind |-> "Throw", text |-> text, args |-> args]
Thrown(result) == "kind" \in DOMAIN result /\ result.kind = "Throw"

VariableQueryNode(name) == [kind |-> "Variable", name |-> name]
FieldQueryNode(objectNode, field) ==
    [kind |-> "Field", objectNode |-> objectNode, field |-> field]
RootEntityIDQueryNode(objectNode) == [kind |-> "RootEntityID", objectNode |-> objectNode]
FollowEdgeQueryNode(side, sourceNode) ==
    [kind |-> "FollowEdge", relationSide |-> side, sourceEntityNode |-> sourceNode]
FirstOfListQueryNode(listNode) == [kind |-> "FirstOfList", listNode |-> listNode]
EntitiesQueryNode(rootEntityType) == [kind |-> "Entities", rootEntityType |-> rootEntityType]
TransformListQueryNode(listNode, filterNode, maxCount, itemVariable) ==
    [kind |-> "TransformList", listNode |-> listNode, filterNode |-> filterNode,
     maxCount |-> maxCount, itemVariable |-> itemVariable]
BinaryOperationQueryNode(lhs, operator, rhs) ==
    [kind |-> "BinaryOperation", lhs |-> lhs, operator |-> operator, rhs |-> rhs]
TypeCheckQueryNode(valueNode, type) ==
    [kind |-> "TypeCheck", valueNode |-> valueNode, type |-> type]
ConditionalQueryNode(condition, expr1, expr2) ==
    [kind |-> "Conditional", condition |-> condition, expr1 |-> expr1, expr2 |-> expr2]
NullQueryNode == [kind |-> "Null"]
EmptyObjectQueryNode == [kind |-> "Object", properties |-> <<>>]
ListQueryNode(itemNodes) == [kind |-> "List", itemNodes |-> itemNodes]

\* and() of filter-input-types/constants
and(lhs, rhs) == BinaryOperationQueryNode(lhs, "AND", rhs)

----------------------------------------------------------------------------
(* Field.getRelationSideOrThrow and the field-access compiler *)

getRelationSideOrThrow(field) ==
    IF kind(typeOf(field)) # ROOT_ENTITY
    THEN Throw("Expected type to be a root entity", <<typeOf(field)>>)
    ELSE IF kind(field.declaringType) # ROOT_ENTITY
    THEN Throw("Expected declaring type to be a root entity", <<field.declaringType>>)
    ELSE IF relationSide(field) = Undefined
    THEN Throw("Expected field to be a relation", <<field.declaringType, field.name>>)
    ELSE relationSide(field)

\* RootEntityType.getKeyFieldOrThrow; a type that is no root entity type has
\* no such method, and the call throws as well
getKeyFieldOrThrow(type) ==
    IF ~isRootEntityType(type)
    THEN Throw("getKeyFieldOrThrow is not a function", <<type>>)
    ELSE IF keyField(type) = Undefined
    THEN Throw("Expected type to have a key field", <<type>>)
    ELSE keyField(type)

createTo1RelationNode(field, sourceNode) ==
    LET relationSideOrThrow == getRelationSideOrThrow(field)
    IN  IF Thrown(relationSideOrThrow) THEN relationSideOrThrow
        ELSE FirstOfListQueryNode(FollowEdgeQueryNode(relationSideOrThrow, sourceNode))

\* the to-1 logic used for a list relation
createToNRelationNode_firstOfList(field, sourceNode) ==
    LET relationSideOrThrow == getRelationSideOrThrow(field)
    IN  IF Thrown(relationSideOrThrow) THEN relationSideOrThrow
        ELSE FirstOfListQueryNode(FollowEdgeQueryNode(relationSideOrThrow, sourceNode))

createToNRelationNode(field, sourceNode) ==
    LET relationSideOrThrow == getRelationSideOrThrow(field)
    IN  IF Thrown(relationSideOrThrow) THEN relationSideOrThrow
        ELSE FollowEdgeQueryNode(relationSideOrThrow, sourceNode)

createSafeListQueryNode(listNode) ==
    ConditionalQueryNode(TypeCheckQueryNode(listNode, "LIST"), listNode, ListQueryNode(<<>>))

\* the lookup without the short cut for a null key
referenceLookup_noNullGuard(field, sourceNode, itemKeyNode) ==
    LET referenceKeyNode == FieldQueryNode(sourceNode, field)
        listItemVar == VariableQueryNode(field.name)
        equalFilterNode == BinaryOperationQueryNode(itemKeyNode, "EQUAL", referenceKeyNode)
        nonNullFilterNode == BinaryOperationQueryNode(itemKeyNode, "UNEQUAL", NullQueryNode)
        filterNode == and(nonNullFilterNode, equalFilterNode)
        listNode == EntitiesQueryNode(typeOf(field))
        filteredListNode == TransformListQueryNode(listNode, filterNode, 1, listItemVar)
    IN  FirstOfListQueryNode(filteredListNode)

\* the rest of createTo1ReferenceNode, given the node that reads the key of
\* a candidate (createFieldNode of the key field on the item variable)
referenceLookup(field, sourceNode, itemKeyNode) ==
    LET referenceKeyNode == FieldQueryNode(sourceNode, field)
        listItemVar == VariableQueryNode(field.name)
        equalFilterNode == BinaryOperationQueryNode(itemKeyNode, "EQUAL", referenceKeyNode)
        nonNullFilterNode == BinaryOperationQueryNode(itemKeyNode, "UNEQUAL", NullQueryNode)
        filterNode == and(nonNullFilterNode, equalFilterNode)
        listNode == EntitiesQueryNode(typeOf(field))
        filteredListNode == TransformListQueryNode(listNode, filterNode, 1, listItemVar)
        rawNode == FirstOfListQueryNode(filteredListNode)
    IN  ConditionalQueryNode(TypeCheckQueryNode(referenceKeyNode, "NULL"), NullQueryNode, rawNode)

RECURSIVE createFieldNode(_, _)

createTo1ReferenceNode(field, sourceNode) ==
    LET keyFieldInReferencedEntity == getKeyFieldOrThrow(typeOf(field))
    IN  IF Thrown(keyFieldInReferencedEntity) THEN keyFieldInReferencedEntity
        ELSE LET itemKeyNode == createFieldNode(keyFieldInReferencedEntity,
                                                VariableQueryNode(field.name))
             IN  IF Thrown(itemKeyNode) THEN itemKeyNode
                 ELSE referenceLookup(field, sourceNode, itemKeyNode)

\* the identity accessor also for the identity field of a child entity type
createFieldNode_identityOfChildEntity(field, sourceNode) ==
    IF field.isList
    THEN IF field.isRelation
         THEN createToNRelationNode(field, sourceNode)
         ELSE createSafeListQueryNode(FieldQueryNode(sourceNode, field))
    ELSE IF field.isRelation
    THEN createTo1RelationNode(field, sourceNode)
    ELSE IF field.isReference
    THEN createTo1ReferenceNode(field, sourceNode)
    ELSE IF (isRootEntityType(field.declaringType) \/ isChildEntityType(field.declaringType))
            /\ field.isSystemField /\ field.name = ID_FIELD
    THEN RootEntityIDQueryNode(sourceNode)
    ELSE IF isEntityExtensionType(typeOf(field))
    THEN ConditionalQueryNode(TypeCheckQueryNode(FieldQueryNode(sourceNode, field), "OBJECT"),
                              FieldQueryNode(sourceNode, field), EmptyObjectQueryNode)
    ELSE FieldQueryNode(sourceNode, field)

\* the reference and entity extension rules tried before the list guard
createFieldNode_listGuardLast(field, sourceNode) ==
    IF field.isRelation
    THEN IF field.isList THEN createToNRelationNode(field, sourceNode)
         ELSE createTo1RelationNode(field, sourceNode)
    ELSE IF field.isReference
    THEN createTo1ReferenceNode(field, sourceNode)
    ELSE IF isRootEntityType(field.declaringType) /\ field.isSystemField /\ field.name = ID_FIELD
    THEN RootEntityIDQueryNode(sourceNode)
    ELSE IF isEntityExtensionType(typeOf(field))
    THEN ConditionalQueryNode(TypeCheckQueryNode(FieldQueryNode(sourceNode, field), "OBJECT"),
                              FieldQueryNode(sourceNode, field), EmptyObjectQueryNode)
    ELSE IF field.isList
    THEN createSafeListQueryNode(FieldQueryNode(sourceNode, field))
    ELSE FieldQueryNode(sourceNode, field)

createFieldNode(field, sourceNode) ==
    IF field.isList
    THEN IF field.isRelation
         THEN createToNRelationNode(field, sourceNode)
         ELSE createSafeListQueryNode(FieldQueryNode(sourceNode, field))
    ELSE IF field.isRelation
    THEN createTo1RelationNode(field, sourceNode)
    ELSE IF field.isReference
    THEN createTo1ReferenceNode(field, sourceNode)
    ELSE IF isRootEntityType(field.declaringType) /\ field.isSystemField /\ field.name = ID_FIELD
    THEN RootEntityIDQueryNode(sourceNode)
    ELSE IF isEntityExtensionType(typeOf(field))
    THEN ConditionalQueryNode(TypeCheckQueryNode(FieldQueryNode(sourceNode, field), "OBJECT"),
                              FieldQueryNode(sourceNode, field), EmptyObjectQueryNode)
    ELSE FieldQueryNode(sourceNode, field)

----------------------------------------------------------------------------
(* The field-access models: the field p of D in every combination of its   *)
(* flags, as a relation to R with and without inverse, and as a reference   *)
(* to a root entity type with and without key field.                        *)

SystemField(declaringType, name, typeName) ==
    [NewField(declaringType, name, typeName) EXCEPT !.isSystemField = TRUE]

\* the system fields an object type of that kind starts with
SystemFields(declaringType, k) ==
    IF k \in {ROOT_ENTITY, CHILD_ENTITY}
    THEN << SystemField(declaringType, ID_FIELD, "ID") >>
    ELSE <<>>

AccessTypes(k, p, q, keyFieldName) ==
    [D |-> NewType(k, SystemFields("D", k) \o <<p>>, UndefName),
     R |-> NewType(ROOT_ENTITY,
                   SystemFields("R", ROOT_ENTITY) \o <<NewField("R", "key", "String"), q>>,
                   keyFieldName),
     K |-> NewType(ROOT_ENTITY, SystemFields("K", ROOT_ENTITY), UndefName),
     V |-> NewType(VALUE_OBJECT, <<NewField("V", "x", "Int")>>, UndefName),
     E |-> NewType(ENTITY_EXTENSION, <<NewField("E", "y", "Int")>>, UndefName),
     C |-> NewType(CHILD_ENTITY, SystemFields("C", CHILD_ENTITY) \o <<NewField("C", "z", "Int")>>,
                   UndefName),
     ID |-> NewType(SCALAR, <<>>, UndefName),
     Int |-> NewType(SCALAR, <<>>, UndefName),
     String |-> NewType(SCALAR, <<>>, UndefName),
     Color |-> NewType(ENUM, <<>>, UndefName)]

AccessTypeNames == {"R", "K", "V", "E", "C", "Int", "Color", "Missing"}

FlagFieldConfigs ==
    { [NewField("D", "p", tn) EXCEPT !.isList = l, !.isReference = ref, !.isRelation = rel] :
        tn \in AccessTypeNames, l \in BOOLEAN, ref \in BOOLEAN, rel \in BOOLEAN }

RelationFieldConfigs ==
    { [NewField("D", "p", "R") EXCEPT !.isList = l, !.isRelation = TRUE,
                                      !.inverseOfFieldName = inv] :
        l \in BOOLEAN, inv \in {UndefName, "q", "zz"} }

BackFieldConfigs ==
    { [NewField("R", "q", "D") EXCEPT !.isRelation = rel, !.inverseOfFieldName = inv] :
        rel \in BOOLEAN, inv \in {UndefName, "p"} }

ReferenceFieldConfigs ==
    { [NewField("D", "p", tn) EXCEPT !.isList = l, !.isReference = TRUE] :
        tn \in {"R", "K"}, l \in BOOLEAN }

AccessModels ==
    { AccessTypes(k, p, NewField("R", "q", "Int"), "key") :
        k \in ObjectKinds, p \in FlagFieldConfigs }
    \cup
    { AccessTypes(ROOT_ENTITY, p, q, "key") :
        p \in RelationFieldConfigs, q \in BackFieldConfigs }
    \cup
    { AccessTypes(k, p, NewField("R", "q", "Int"), keyFieldName) :
        k \in ObjectKinds, p \in ReferenceFieldConfigs, keyFieldName \in {"key", ID_FIELD} }

\* the expressions standing for the current object
SourceNodes == { VariableQueryNode("root"), VariableQueryNode("item") }

InitFieldNode ==
    /\ types \in AccessModels
    /\ resolved = <<>>
    /\ position = 0
    /\ messages = <<>>
    /\ fault = NoFault
    /\ compiled = NotCompiled
    /\ generator = NewGenerator
    /\ returned = {}
    /\ lastCall = NoCall
    /\ applied = NoCall

\* a caller compiles the read access to a field of the model
CreateFieldNode(field, sourceNode) ==
    /\ compiled' = [kind |-> "compiled", field |-> field, sourceNode |-> sourceNode,
                    node |-> createFieldNode(field, sourceNode)]
    /\ UNCHANGED <<types, resolved, position, messages, fault,
                   generator, returned, lastCall, applied>>

NextFieldNode ==
    \E field \in AllFields : \E sourceNode \in SourceNodes :
        CreateFieldNode(field, sourceNode)

SpecFieldNode == InitFieldNode /\ [][NextFieldNode]_vars

----------------------------------------------------------------------------
(* Input types and update input fields *)

GraphQLID == [kind |-> "GraphQLScalarType", name |-> "ID"]
GraphQLNonNull(ofType) == [kind |-> "GraphQLNonNull", ofType |-> ofType]
GraphQLList(ofType) == [kind |-> "GraphQLList", ofType |-> ofType]

\* ScalarType.graphQLScalarType
graphQLScalarType(type) == [kind |-> "GraphQLScalarType", name |-> type]
\* EnumTypeGenerator.generate
generateEnumType(type) == [kind |-> "GraphQLEnumType", name |-> type]
\* CreateInputTypeGenerator.generate / generateForChildEntityType /
\* generateForRootEntityType
generateCreateInputType(type) == [kind |-> "CreateObjectInputType", type |-> type]
\* a reference to the update input type object number id of the generator
UpdateObjectInputTypeRef(id) == [kind |-> "UpdateObjectInputType", id |-> id]

UpdateFilterInputField(field, inputType) ==
    [class |-> "UpdateFilterInputField", field |-> field, name |-> field.name,
     inputType |-> inputType]
BasicUpdateInputField(field, inputType) ==
    [class |-> "BasicUpdateInputField", field |-> field, name |-> field.name,
     inputType |-> inputType]
BasicListUpdateInputField(field, inputType) ==
    [class |-> "BasicListUpdateInputField", field |-> field, name |-> field.name,
     inputType |-> inputType]
UpdateValueObjectInputField(field, objectInputType) ==
    [class |-> "UpdateValueObjectInputField", field |-> field, name |-> field.name,
     inputType |-> objectInputType, objectInputType |-> objectInputType]
UpdateValueObjectListInputField(field, objectInputType) ==
    [class |-> "UpdateValueObjectListInputField", field |-> field, name |-> field.name,
     inputType |-> GraphQLList(GraphQLNonNull(objectInputType)),
     objectInputType |-> objectInputType]
CalcMutationInputField(field, inputType, operator, prefix) ==
    [class |-> "CalcMutationInputField", field |-> field, inputType |-> inputType,
     operator |-> operator, prefix |-> prefix]
UpdateEntityExtensionInputField(field, inputType) ==
    [class |-> "UpdateEntityExtensionInputField", field |-> field, inputType |-> inputType]
AddChildEntitiesInputField(field, createInputType) ==
    [class |-> "AddChildEntitiesInputField", field |-> field, inputType |-> createInputType]
UpdateChildEntitiesInputField(field, inputType) ==
    [class |-> "UpdateChildEntitiesInputField", field |-> field, inputType |-> inputType]
RemoveChildEntitiesInputField(field) ==
    [class |-> "RemoveChildEntitiesInputField", field |-> field]
AddEdgesInputField(field) == [class |-> "AddEdgesInputField", field |-> field]
RemoveEdgesInputField(field) == [class |-> "RemoveEdgesInputField", field |-> field]
CreateAndAddEdgesInputField(field, createInputType) ==
    [class |-> "CreateAndAddEdgesInputField", field |-> field, inputType |-> createInputType]
SetEdgeInputField(field) == [class |-> "SetEdgeInputField", field |-> field]
CreateAndSetEdgeInputField(field, createInputType) ==
    [class |-> "CreateAndSetEdgeInputField", field |-> field, inputType |-> createInputType]

----------------------------------------------------------------------------
(* UpdateInputTypeGenerator *)

\* the outcome of a call: the generator after it, and its value or the
\* error it threw
Return(g, value) == [g |-> g, fault |-> NoFault, value |-> value]
Raise(g, error) == [g |-> g, fault |-> error, value |-> Undefined]

\* getUpdateInputTypeName / getUpdateAllInputTypeName of schema/names
getUpdateInputTypeName(name) == <<"Update", name, "Input">>
getUpdateAllInputTypeName(name) == <<"UpdateAll", name, "Input">>

\* new Update...InputType(type, name, () => flatMap(type.fields, ...)): the
\* fields are computed when they are first read
NewInputType(class, type, name, skipID, skipRelations) ==
    [class |-> class, type |-> type, name |-> name,
     skipID |-> skipID, skipRelations |-> skipRelations,
     resolved |-> FALSE, fields |-> <<>>]

\* the input type object is made and put into the memo of the method
\* the identity of a new object: what made it, for which type, and how many
\* objects were made like that before it
NewIdentity(g, method, type) ==
    <<method, type, Cardinality({ id \in DOMAIN g.heap : id[1] = method /\ id[2] = type })>>

Construct(g, method, object) ==
    LET id == NewIdentity(g, method, object.type)
    IN  Return([memo |-> g.memo @@ (<<method, object.type>> :> id),
                heap |-> g.heap @@ (id :> object)],
               id)

IsMemoized(g, method, type) == <<method, type>> \in DOMAIN g.memo

\* the memo is not looked at: every call makes its object
generateForEntityExtensionType_notMemoized(g, type) ==
    LET id == NewIdentity(g, "generateForEntityExtensionType", type)
        object == NewInputType("UpdateEntityExtensionInputType", type,
                               getUpdateInputTypeName(type), FALSE, FALSE)
    IN  Return([memo |-> [key \in DOMAIN g.memo \cup {<<"generateForEntityExtensionType", type>>} |->
                            IF key = <<"generateForEntityExtensionType", type>> THEN id
                            ELSE g.memo[key]],
                heap |-> g.heap @@ (id :> object)],
               id)

generateForRootEntityType(g, type) ==
    IF IsMemoized(g, "generateForRootEntityType", type)
    THEN Return(g, g.memo[<<"generateForRootEntityType", type>>])
    ELSE Construct(g, "generateForRootEntityType",
                   NewInputType("UpdateRootEntityInputType", type,
                                getUpdateInputTypeName(type), FALSE, FALSE))

\* the update-all shape taken from the memo of the update shape
generateUpdateAllRootEntitiesInputType_sharedMemo(g, type) ==
    generateForRootEntityType(g, type)

generateUpdateAllRootEntitiesInputType(g, type) ==
    IF IsMemoized(g, "generateUpdateAllRootEntitiesInputType", type)
    THEN Return(g, g.memo[<<"generateUpdateAllRootEntitiesInputType", type>>])
    ELSE Construct(g, "generateUpdateAllRootEntitiesInputType",
                   NewInputType("UpdateRootEntityInputType", type,
                                getUpdateAllInputTypeName(type), TRUE, TRUE))

generateForEntityExtensionType(g, type) ==
    IF IsMemoized(g, "generateForEntityExtensionType", type)
    THEN Return(g, g.memo[<<"generateForEntityExtensionType", type>>])
    ELSE Construct(g, "generateForEntityExtensionType",
                   NewInputType("UpdateEntityExtensionInputType", type,
                                getUpdateInputTypeName(type), FALSE, FALSE))

generateForChildEntityType(g, type) ==
    IF IsMemoized(g, "generateForChildEntityType", type)
    THEN Return(g, g.memo[<<"generateForChildEntityType", type>>])
    ELSE Construct(g, "generateForChildEntityType",
                   NewInputType("UpdateChildEntityInputType", type,
                                getUpdateInputTypeName(type), FALSE, FALSE))

\* the body of generate
generateByKind(g, type) ==
    IF isRootEntityType(type) THEN generateForRootEntityType(g, type)
    ELSE IF isEntityExtensionType(type) THEN generateForEntityExtensionType(g, type)
    ELSE IF isChildEntityType(type) THEN generateForChildEntityType(g, type)
    ELSE Raise(g, Throw("Unsupported type for update input type generation", <<kind(type)>>))

generate(g, type) ==
    IF IsMemoized(g, "generate", type)
    THEN Return(g, g.memo[<<"generate", type>>])
    ELSE LET made == generateByKind(g, type)
         IN  IF made.fault # NoFault THEN made
             ELSE Return([made.g EXCEPT !.memo = @ @@ (<<"generate", type>> :> made.value)],
                         made.value)

\* getCalcMutationOperatorOrThrow, mapped over the declared operators: the
\* first operator that is not in the table throws
RECURSIVE getCalcMutationOperatorsOrThrow(_)
getCalcMutationOperatorsOrThrow(operators) ==
    IF operators = <<>> THEN [fault |-> NoFault, value |-> <<>>]
    ELSE LET value == findOperator(Head(operators))
         IN  IF value = Undefined
             THEN [fault |-> Throw("Calc mutation operator is not defined", <<Head(operators)>>),
                   value |-> <<>>]
             ELSE LET rest == getCalcMutationOperatorsOrThrow(Tail(operators))
                  IN  [fault |-> rest.fault,
                       value |-> <<[name |-> value.name, prefix |-> value.prefix,
                                    supportedTypes |-> value.supportedTypes,
                                    operator |-> Head(operators)]>> \o rest.value]

\* RootEntityType.getKeyFieldTypeOrThrow
getKeyFieldTypeOrThrow(type) ==
    IF keyField(type) = Undefined
    THEN Throw("Expected type to have a key field", <<type>>)
    ELSE [kind |-> "type", name |-> typeOf(keyField(type))]

\* the branch of generateFields for scalar and enum types
generateScalarFields(g, field) ==
    LET inputType == IF isEnumType(typeOf(field)) THEN generateEnumType(typeOf(field))
                     ELSE graphQLScalarType(typeOf(field))
    IN  IF field.isList
        THEN Return(g, << BasicListUpdateInputField(field, GraphQLList(GraphQLNonNull(inputType))) >>)
        ELSE LET calcMutationOperators == getCalcMutationOperatorsOrThrow(field.calcMutationOperators)
                 calcMutationFields ==
                    [i \in DOMAIN calcMutationOperators.value |->
                        CalcMutationInputField(field, inputType,
                                               calcMutationOperators.value[i].operator,
                                               calcMutationOperators.value[i].prefix)]
             IN  IF calcMutationOperators.fault # NoFault
                 THEN Raise(g, calcMutationOperators.fault)
                 ELSE Return(g, << BasicUpdateInputField(field, inputType) >> \o calcMutationFields)

\* the setter typed by the referenced type instead of the type of its key
generateReferenceFields_typedByTarget(g, field) ==
    Return(g, << BasicUpdateInputField(field, graphQLScalarType(typeOf(field))) >>)

\* the branch of generateFields for reference fields
generateReferenceFields(g, field) ==
    LET keyType == getKeyFieldTypeOrThrow(typeOf(field))
    IN  IF Thrown(keyType) THEN Raise(g, keyType)
        ELSE Return(g, << BasicUpdateInputField(field, graphQLScalarType(keyType.name)) >>)

\* the inputs of a relation in another order
generateRelationFields_removeFirst(g, field, skipRelations) ==
    IF skipRelations THEN Return(g, <<>>)
    ELSE LET inputType == generateCreateInputType(typeOf(field))
         IN  IF field.isList
             THEN Return(g, << RemoveEdgesInputField(field), AddEdgesInputField(field),
                               CreateAndAddEdgesInputField(field, inputType) >>)
             ELSE Return(g, << CreateAndSetEdgeInputField(field, inputType),
                               SetEdgeInputField(field) >>)

\* the branch of generateFields for relation fields
generateRelationFields(g, field, skipRelations) ==
    IF skipRelations THEN Return(g, <<>>)
    ELSE LET inputType == generateCreateInputType(typeOf(field))
         IN  IF field.isList
             THEN Return(g, << AddEdgesInputField(field), RemoveEdgesInputField(field),
                               CreateAndAddEdgesInputField(field, inputType) >>)
             ELSE Return(g, << SetEdgeInputField(field),
                               CreateAndSetEdgeInputField(field, inputType) >>)

generateFields(g, field, skipID, skipRelations) ==
    IF field.isSystemField
    THEN IF ~skipID
            /\ (isRootEntityType(field.declaringType) \/ isChildEntityType(field.declaringType))
            /\ field.name = ID_FIELD
         THEN Return(g, << UpdateFilterInputField(field, GraphQLNonNull(GraphQLID)) >>)
         ELSE Return(g, <<>>)
    ELSE IF isScalarType(typeOf(field)) \/ isEnumType(typeOf(field))
    THEN generateScalarFields(g, field)
    ELSE IF isValueObjectType(typeOf(field))
    THEN IF field.isList
         THEN Return(g, << UpdateValueObjectListInputField(field, generateCreateInputType(typeOf(field))) >>)
         ELSE Return(g, << UpdateValueObjectInputField(field, generateCreateInputType(typeOf(field))) >>)
    ELSE IF isEntityExtensionType(typeOf(field))
    THEN LET inputType == generate(g, typeOf(field))
         IN  IF inputType.fault # NoFault THEN inputType
             ELSE Return(inputType.g,
                         << UpdateEntityExtensionInputField(field, UpdateObjectInputTypeRef(inputType.value)) >>)
    ELSE IF isChildEntityType(typeOf(field))
    THEN LET inputType == generateForChildEntityType(g, typeOf(field))
         IN  Return(inputType.g,
                    << AddChildEntitiesInputField(field, generateCreateInputType(typeOf(field))),
                       UpdateChildEntitiesInputField(field, UpdateObjectInputTypeRef(inputType.value)),
                       RemoveChildEntitiesInputField(field) >>)
    ELSE IF field.isReference
    THEN generateReferenceFields(g, field)
    ELSE IF field.isRelation
    THEN generateRelationFields(g, field, skipRelations)
    ELSE Raise(g, Throw("Field has an unexpected configuration", <<field.declaringType, field.name>>))

\* flatMap(type.fields, field => this.generateFields(field, options)): the
\* first field that throws ends it
RECURSIVE flatMapFields(_, _, _, _)

\* the inputs of the first field, followed by those of the fields after it
concatInputs(first, rest) ==
    IF rest.fault # NoFault THEN rest
    ELSE Return(rest.g, first.value \o rest.value)

\* the fields after the first are mapped by the generator the first left
flatMapRest(first, fields, skipID, skipRelations) ==
    IF first.fault # NoFault THEN first
    ELSE concatInputs(first, flatMapFields(first.g, fields, skipID, skipRelations))

flatMapFields(g, fields, skipID, skipRelations) ==
    IF fields = <<>> THEN Return(g, <<>>)
    ELSE flatMapRest(generateFields(g, Head(fields), skipID, skipRelations),
                     Tail(fields), skipID, skipRelations)

\* the fields of the input type object id are read for the first time
resolveFields(g, id) ==
    LET object == g.heap[id]
        inputs == flatMapFields(g, fieldsOf(object.type), object.skipID, object.skipRelations)
    IN  IF inputs.fault # NoFault THEN inputs
        ELSE Return([inputs.g EXCEPT !.heap[id].resolved = TRUE,
                                     !.heap[id].fields = inputs.value],
                    inputs.value)

----------------------------------------------------------------------------
(* The generator models: a root entity type O with an entity extension, a  *)
(* child entity list and a counter; the entity extension and the child     *)
(* entity type may embed each other.                                       *)

GeneratorTypes(operators, eHasChildren, cHasExtension) ==
    [O |-> NewType(ROOT_ENTITY,
                   SystemFields("O", ROOT_ENTITY)
                   \o << [NewField("O", "n", "Int") EXCEPT !.calcMutationOperators = operators],
                         NewField("O", "e", "E"),
                         [NewField("O", "cs", "C") EXCEPT !.isList = TRUE] >>,
                   UndefName),
     E |-> NewType(ENTITY_EXTENSION,
                   <<NewField("E", "y", "Int")>>
                   \o (IF eHasChildren
                       THEN << [NewField("E", "cs", "C") EXCEPT !.isList = TRUE] >>
                       ELSE <<>>),
                   UndefName),
     C |-> NewType(CHILD_ENTITY,
                   SystemFields("C", CHILD_ENTITY) \o <<NewField("C", "z", "Int")>>
                   \o (IF cHasExtension THEN <<NewField("C", "e", "E")>> ELSE <<>>),
                   UndefName),
     V |-> NewType(VALUE_OBJECT, <<NewField("V", "x", "Int")>>, UndefName),
     ID |-> NewType(SCALAR, <<>>, UndefName),
     Int |-> NewType(SCALAR, <<>>, UndefName)]

GeneratorModels ==
    { GeneratorTypes(operators, eHasChildren, cHasExtension) :
        operators \in {<<>>, <<"ADD">>, <<"POWER">>},
        eHasChildren \in BOOLEAN, cHasExtension \in BOOLEAN }

InitGenerator ==
    /\ types \in GeneratorModels
    /\ resolved = <<>>
    /\ position = 0
    /\ messages = <<>>
    /\ fault = NoFault
    /\ compiled = NotCompiled
    /\ generator = NewGenerator
    /\ returned = {}
    /\ lastCall = NoCall
    /\ applied = NoCall

\* the call returns or throws; what it returned is remembered per type
Called(method, type, outcome) ==
    /\ generator' = outcome.g
    /\ fault' = outcome.fault
    /\ returned' = IF outcome.fault = NoFault
                   THEN returned \cup {<<method, type, outcome.value>>}
                   ELSE returned
    /\ UNCHANGED <<types, resolved, position, messages, compiled, lastCall, applied>>

Generate(type) ==
    Called("generate", type, generate(generator, type))

GenerateForRootEntityType(type) ==
    /\ isRootEntityType(type)
    /\ Called("generateForRootEntityType", type, generateForRootEntityType(generator, type))

GenerateUpdateAllRootEntitiesInputType(type) ==
    /\ isRootEntityType(type)
    /\ Called("generateUpdateAllRootEntitiesInputType", type,
              generateUpdateAllRootEntitiesInputType(generator, type))

GenerateForEntityExtensionType(type) ==
    /\ isEntityExtensionType(type)
    /\ Called("generateForEntityExtensionType", type,
              generateForEntityExtensionType(generator, type))

GenerateForChildEntityType(type) ==
    /\ isChildEntityType(type)
    /\ Called("generateForChildEntityType", type, generateForChildEntityType(generator, type))

\* the nested input types the inputs refer to: what generate and
\* generateForChildEntityType returned inside generateFields
NestedReturns(inputs) ==
    { <<"generate", typeOf(inputs[i].field), inputs[i].inputType.id>> :
        i \in { j \in DOMAIN inputs : inputs[j].class = "UpdateEntityExtensionInputField" } }
    \cup
    { <<"generateForChildEntityType", typeOf(inputs[i].field), inputs[i].inputType.id>> :
        i \in { j \in DOMAIN inputs : inputs[j].class = "UpdateChildEntitiesInputField" } }

\* the fields of an input type object are read for the first time
ResolveFields(id) ==
    /\ ~generator.heap[id].resolved
    /\ LET outcome == resolveFields(generator, id)
       IN  /\ generator' = outcome.g
           /\ fault' = outcome.fault
           /\ returned' = IF outcome.fault = NoFault
                          THEN returned \cup NestedReturns(outcome.value)
                          ELSE returned
    /\ UNCHANGED <<types, resolved, position, messages, compiled, lastCall, applied>>

NextGenerator ==
    \/ \E type \in DOMAIN types \ {"ID", "Int"} : Generate(type)
    \/ \E type \in DOMAIN types : GenerateForRootEntityType(type)
    \/ \E type \in DOMAIN types : GenerateUpdateAllRootEntitiesInputType(type)
    \/ \E type \in DOMAIN types : GenerateForEntityExtensionType(type)
    \/ \E type \in DOMAIN types : GenerateForChildEntityType(type)
    \/ \E id \in DOMAIN generator.heap : ResolveFields(id)

SpecGenerator == InitGenerator /\ [][NextGenerator]_vars

----------------------------------------------------------------------------
(* Values supplied to an input, and the nodes made of them *)

MaxListLen == 2

JSNull == [kind |-> "null"]
JSNumber(n) == [kind |-> "number", value |-> n]
JSString(str) == [kind |-> "string", value |-> str]
\* an object, by the names of its properties
JSObject(properties) == [kind |-> "object", properties |-> properties]
JSArray(items) == [kind |-> "array", items |-> items]

isArray(value) == value.kind = "array"
\* typeof value
typeofValue(value) ==
    IF value.kind \in {"null", "array"} THEN "object" ELSE value.kind

LiteralQueryNode(value) == [kind |-> "Literal", value |-> value]
SetFieldQueryNode(field, valueNode) ==
    [kind |-> "SetField", field |-> field, valueNode |-> valueNode]

\* CreateObjectInputType.prepareValue: the value as the create input of that
\* type stores it
prepareValue(objectInputType, value) ==
    [kind |-> "prepared", type |-> objectInputType.type, value |-> value]

\* CreateObjectInputType.collectAffectedFields: the fields of the type the
\* value has properties for
collectAffectedFieldsOfObject(objectInputType, value, fields) ==
    IF value.kind = "object"
    THEN fields \cup { f \in Range(fieldsOf(objectInputType.type)) : f.name \in value.properties }
    ELSE fields

SetterClasses ==
    {"BasicUpdateInputField", "BasicListUpdateInputField",
     "UpdateValueObjectInputField", "UpdateValueObjectListInputField"}

\* no class normalises the value
coerceValue_unchanged(input, value) == value

\* a value that is not an array taken as it is by the value object list
coerceValue_nonListAccepted(input, value) ==
    IF input.class = "BasicListUpdateInputField"
    THEN IF value = JSNull THEN JSArray(<<>>) ELSE value
    ELSE IF input.class = "UpdateValueObjectInputField"
    THEN IF value = JSNull \/ value = Undefined THEN value
         ELSE prepareValue(input.objectInputType, value)
    ELSE IF input.class = "UpdateValueObjectListInputField"
    THEN IF value = JSNull THEN JSArray(<<>>)
         ELSE IF value = Undefined THEN Undefined
         ELSE IF ~isArray(value) THEN value
         ELSE JSArray([i \in DOMAIN value.items |->
                          prepareValue(input.objectInputType, value.items[i])])
    ELSE value

\* coerceValue of the class of the input
coerceValue(input, value) ==
    IF input.class = "BasicListUpdateInputField"
    THEN IF value = JSNull THEN JSArray(<<>>) ELSE value
    ELSE IF input.class = "UpdateValueObjectInputField"
    THEN IF value = JSNull \/ value = Undefined THEN value
         ELSE prepareValue(input.objectInputType, value)
    ELSE IF input.class = "UpdateValueObjectListInputField"
    THEN IF value = JSNull THEN JSArray(<<>>)
         ELSE IF value = Undefined THEN Undefined
         ELSE IF ~isArray(value)
         THEN Throw("Expected value to be an array", <<input.name, typeofValue(value)>>)
         ELSE JSArray([i \in DOMAIN value.items |->
                          prepareValue(input.objectInputType, value.items[i])])
    ELSE value

\* getProperties of the class of the input: the nodes, or the error thrown
getProperties(input, value) ==
    IF input.class = "UpdateFilterInputField"
    THEN [fault |-> NoFault, value |-> <<>>]
    ELSE LET coerced == coerceValue(input, value)
         IN  IF Thrown(coerced)
             THEN [fault |-> coerced, value |-> <<>>]
             ELSE [fault |-> NoFault,
                   value |-> << SetFieldQueryNode(input.field, LiteralQueryNode(coerced)) >>]

\* forEach(value => objectInputType.collectAffectedFields(value, fields))
RECURSIVE collectAffectedFieldsOfItems(_, _, _)
collectAffectedFieldsOfItems(objectInputType, items, fields) ==
    IF items = <<>> THEN fields
    ELSE collectAffectedFieldsOfItems(objectInputType, Tail(items),
            collectAffectedFieldsOfObject(objectInputType, Head(items), fields))

\* the filter input reported as affected like a setter
collectAffectedFields_filterAffected(input, value, fields) ==
    [fault |-> NoFault, fields |-> fields \cup {input.field}]

\* collectAffectedFields of the class of the input: the set after the call,
\* and the error it threw
collectAffectedFields(input, value, fields) ==
    IF input.class = "UpdateFilterInputField"
    THEN [fault |-> NoFault, fields |-> fields]
    ELSE IF input.class = "UpdateValueObjectInputField"
    THEN IF value = JSNull \/ value = Undefined
         THEN [fault |-> NoFault, fields |-> fields \cup {input.field}]
         ELSE [fault |-> NoFault,
               fields |-> collectAffectedFieldsOfObject(input.objectInputType, value,
                                                        fields \cup {input.field})]
    ELSE IF input.class = "UpdateValueObjectListInputField"
    THEN IF value = JSNull \/ value = Undefined
         THEN [fault |-> NoFault, fields |-> fields \cup {input.field}]
         ELSE IF ~isArray(value)
         THEN [fault |-> Throw("Expected value to be an array", <<input.name, typeofValue(value)>>),
               fields |-> fields \cup {input.field}]
         ELSE [fault |-> NoFault,
               fields |-> collectAffectedFieldsOfItems(input.objectInputType, value.items,
                                                       fields \cup {input.field})]
    ELSE [fault |-> NoFault, fields |-> fields \cup {input.field}]

----------------------------------------------------------------------------
(* The input models: a root entity type D with one field p of every kind   *)
(* that gets a setter, and the values a caller may supply.                 *)

InputTypes(p, keyTypeName, keyFieldName) ==
    [D |-> NewType(ROOT_ENTITY, SystemFields("D", ROOT_ENTITY) \o <<p>>, UndefName),
     R |-> NewType(ROOT_ENTITY,
                   SystemFields("R", ROOT_ENTITY) \o <<NewField("R", "key", keyTypeName)>>,
                   keyFieldName),
     V |-> NewType(VALUE_OBJECT, <<NewField("V", "x", "Int")>>, UndefName),
     ID |-> NewType(SCALAR, <<>>, UndefName),
     Int |-> NewType(SCALAR, <<>>, UndefName),
     String |-> NewType(SCALAR, <<>>, UndefName),
     Color |-> NewType(ENUM, <<>>, UndefName)]

SetterFieldConfigs ==
    { [NewField("D", "p", tn) EXCEPT !.isList = l] :
        tn \in {"Int", "Color", "V"}, l \in BOOLEAN }
    \cup { [NewField("D", "p", "Int") EXCEPT !.calcMutationOperators = <<"ADD">>] }

LinkFieldConfigs ==
    { [NewField("D", "p", "R") EXCEPT !.isList = l, !.isReference = ref, !.isRelation = rel] :
        l \in BOOLEAN, ref \in BOOLEAN, rel \in BOOLEAN }

\* D of a kind that has system fields, with all of them
SystemInputTypes(k) ==
    [D |-> NewType(k, << SystemField("D", ID_FIELD, "ID"),
                         SystemField("D", "createdAt", "DateTime"),
                         SystemField("D", "updatedAt", "DateTime"),
                         NewField("D", "p", "Int") >>, UndefName),
     ID |-> NewType(SCALAR, <<>>, UndefName),
     DateTime |-> NewType(SCALAR, <<>>, UndefName),
     Int |-> NewType(SCALAR, <<>>, UndefName)]

\* D with a field p of entity extension or child entity type, followed by a
\* counter
NestedInputTypes(p) ==
    [D |-> NewType(ROOT_ENTITY,
                   SystemFields("D", ROOT_ENTITY)
                   \o << p, [NewField("D", "n", "Int") EXCEPT !.calcMutationOperators = <<"ADD", "MULTIPLY">>] >>,
                   UndefName),
     E |-> NewType(ENTITY_EXTENSION, <<NewField("E", "y", "Int")>>, UndefName),
     C |-> NewType(CHILD_ENTITY, SystemFields("C", CHILD_ENTITY) \o <<NewField("C", "z", "Int")>>,
                   UndefName),
     ID |-> NewType(SCALAR, <<>>, UndefName),
     Int |-> NewType(SCALAR, <<>>, UndefName)]

NestedFieldConfigs ==
    { [NewField("D", "p", tn) EXCEPT !.isList = l] : tn \in {"E", "C"}, l \in BOOLEAN }

InputModels ==
    { InputTypes(p, "String", "key") : p \in SetterFieldConfigs }
    \cup
    { NestedInputTypes(p) : p \in NestedFieldConfigs }
    \cup
    { SystemInputTypes(k) : k \in {ROOT_ENTITY, CHILD_ENTITY} }
    \cup
    { InputTypes(p, keyTypeName, keyFieldName) :
        p \in LinkFieldConfigs, keyTypeName \in {"String", "Int"},
        keyFieldName \in {"key", ID_FIELD, UndefName} }

Elements == { JSObject({"x"}), JSNumber(1) }

RECURSIVE ArraysOfLen(_)
ArraysOfLen(n) ==
    IF n = 0 THEN { <<>> }
    ELSE { Append(items, e) : items \in ArraysOfLen(n - 1), e \in Elements }

Values ==
    { JSNull, Undefined, JSString("a"), JSObject({}) } \cup Elements
    \cup { JSArray(items) : items \in UNION { ArraysOfLen(n) : n \in 0..MaxListLen } }

\* the input types a caller asks for
ShapeTypes == {"D"}

\* the sets of fields a caller collects into
FieldSets == { {}, {getField("D", "p")} }

InitInputField ==
    /\ types \in InputModels
    /\ resolved = <<>>
    /\ position = 0
    /\ messages = <<>>
    /\ fault = NoFault
    /\ compiled = NotCompiled
    /\ generator = NewGenerator
    /\ returned = {}
    /\ lastCall = NoCall
    /\ applied = NoCall

\* the inputs of the input types whose fields have been read
Inputs ==
    UNION { { [id |-> id, input |-> generator.heap[id].fields[i]] :
                i \in DOMAIN generator.heap[id].fields } :
            id \in { h \in DOMAIN generator.heap : generator.heap[h].resolved } }

GetProperties(of, value) ==
    /\ of.input.class \in SetterClasses \cup {"UpdateFilterInputField"}
    /\ applied' = [kind |-> "getProperties", of |-> of.id, input |-> of.input, value |-> value,
                   fields |-> {}, result |-> getProperties(of.input, value)]
    /\ UNCHANGED <<types, resolved, position, messages, fault, compiled, generator,
                   returned, lastCall>>

CollectAffectedFields(of, value, fields) ==
    /\ of.input.class \in SetterClasses \cup {"UpdateFilterInputField"}
    /\ applied' = [kind |-> "collectAffectedFields", of |-> of.id, input |-> of.input,
                   value |-> value, fields |-> fields,
                   result |-> collectAffectedFields(of.input, value, fields)]
    /\ UNCHANGED <<types, resolved, position, messages, fault, compiled, generator,
                   returned, lastCall>>

NextInputField ==
    \/ \E type \in ShapeTypes : Generate(type)
    \/ \E type \in ShapeTypes : GenerateUpdateAllRootEntitiesInputType(type)
    \/ \E id \in DOMAIN generator.heap : ResolveFields(id)
    \/ \E of \in Inputs, value \in Values : GetProperties(of, value)
    \/ \E of \in Inputs, value \in Values, fields \in FieldSets :
            CollectAffectedFields(of, value, fields)

SpecInputField == InitInputField /\ [][NextInputField]_vars

----------------------------------------------------------------------------
(* C1 *)

\* B is a relation field on A's target type that targets A's declaring type
\* and names A as its inverse; both are on root entity types
NamesAsInverse(B, A) ==
    /\ A.isRelation /\ B.isRelation
    /\ isRootEntityType(A.declaringType) /\ isRootEntityType(B.declaringType)
    /\ typeOf(A) = B.declaringType /\ typeOf(B) = A.declaringType
    /\ B.inverseOfFieldName = A.name

BothResolved(A, B) ==
    /\ A \in DOMAIN resolved /\ B \in DOMAIN resolved
    /\ resolved[A] # Unresolved /\ resolved[B] # Unresolved

SameRelation(A, B) ==
    /\ resolved[A] # Undefined /\ resolved[B] # Undefined
    /\ resolved[A].relation = resolved[B].relation
    /\ resolved[A].relation.fromType = A.declaringType
    /\ resolved[A].relation.fromField = A
    /\ resolved[A].relation.toType = B.declaringType
    /\ resolved[A].relation.toField = B
    /\ resolved[A].side = "from" /\ resolved[B].side = "to"

\* A's own declared inverse, if any, does not resolve to a field
DeclaresNoResolvingInverse(A) ==
    \/ A.inverseOfFieldName = UndefName
    \/ getField(typeOf(A), A.inverseOfFieldName) = Undefined

\* B is the first field of its declaring type, in declaration order, whose
\* declared inverse is A
FirstToName(B, A) ==
    LET fs == fieldsOf(B.declaringType)
    IN  \A i, j \in DOMAIN fs :
            (fs[j] = B /\ i < j) =>
                ~(fs[i].inverseOfFieldName = A.name /\ typeOf(fs[i]) = A.declaringType)

\* C1 as stated: for every relation field B that names relation field A as its
\* inverse, A and B resolve to the same relation (fromType, fromField, toType,
\* toField), A on its from side and B on its to side, in whatever order the
\* two are resolved.
C1_EveryNamerSharesRelation ==
    \A A \in AllFields : \A B \in AllFields :
        (NamesAsInverse(B, A) /\ BothResolved(A, B)) => SameRelation(A, B)

\* C1 amended: the same, for a field A whose own declared inverse does not
\* resolve and for the first field B, in declaration order, that names A.
C1_FirstNamerSharesRelation ==
    \A A \in AllFields : \A B \in AllFields :
        (NamesAsInverse(B, A) /\ DeclaresNoResolvingInverse(A) /\ FirstToName(B, A)
            /\ BothResolved(A, B))
        => SameRelation(A, B)

\* A and its first namer B are both resolved, and a second field names A too
C1_Witness ==
    \E A \in AllFields : \E B \in AllFields : \E B2 \in AllFields :
        /\ NamesAsInverse(B, A) /\ DeclaresNoResolvingInverse(A) /\ FirstToName(B, A)
        /\ BothResolved(A, B) /\ SameRelation(A, B)
        /\ B2 # B /\ NamesAsInverse(B2, A) /\ BothResolved(A, B2)

----------------------------------------------------------------------------
(* C2 *)

\* the fields of F's target type whose declared inverse is F
NamersOf(F) ==
    { g \in Range(fieldsOf(typeOf(F))) :
        g.inverseOfFieldName = F.name /\ typeOf(g) = F.declaringType }

\* F is a relation to a root entity type, declares no inverse, and more than
\* one field of its target type names it
NamedByMany(F) ==
    /\ F.isRelation /\ F.inverseOfFieldName = UndefName
    /\ isRootEntityType(typeOf(F))
    /\ Cardinality(NamersOf(F)) > 1

IsMultipleOn(F, m) ==
    /\ m.severity = "error"
    /\ m.text = "Multiple fields declare inverseOf to"
    /\ m.args[2] = F.declaringType /\ m.args[3] = F.name

\* C2: once the model is validated, a relation field F without explicit
\* inverse that n > 1 fields of its target type name as their inverse has
\* exactly n 'Multiple fields ... declare inverseOf' errors, exactly one of
\* them located on each of the n fields (so none is reported a second time
\* by those fields' own validation).
C2_OneErrorPerInverseField ==
    Validated =>
        \A F \in AllFields : NamedByMany(F) =>
            /\ \A g \in NamersOf(F) :
                LET onG(m) == IsMultipleOn(F, m) /\ m.location = astNode(g)
                IN  CountMessages(onG) = 1
            /\ LET aboutF(m) == IsMultipleOn(F, m)
               IN  CountMessages(aboutF) = Cardinality(NamersOf(F))

C2_Witness ==
    /\ Validated
    /\ \E F \in AllFields :
        /\ NamedByMany(F)
        /\ LET aboutF(m) == IsMultipleOn(F, m) IN CountMessages(aboutF) = MaxTargetFields

----------------------------------------------------------------------------
(* C3 *)

\* B is a relation to a root entity type whose declared inverse is the field
\* A; A is a relation back to B's declaring type and A's own declared inverse
\* resolves to a field
InverseChain(B, A) ==
    /\ B.isRelation /\ isRootEntityType(typeOf(B))
    /\ B.inverseOfFieldName = A.name /\ A.declaringType = typeOf(B)
    /\ A.isRelation /\ typeOf(A) = B.declaringType
    /\ A.inverseOfFieldName # UndefName
    /\ getField(typeOf(A), A.inverseOfFieldName) # Undefined

IsChainError(B, A, m) ==
    /\ m.severity = "error"
    /\ m.text = "should not declare inverseOf itself."
    /\ m.args = <<A.declaringType, A.name, B.declaringType, B.name>>

----------------------------------------------------------------------------
(* C6 *)

HasBeenValidated(f) == \E i \in 1..position : AllFieldsSeq[i] = f

\* the operators of the table whose supported types include the type
AllowedFor(typeName) ==
    { CALC_MUTATIONS_OPERATORS[i].name : i \in
        { j \in DOMAIN CALC_MUTATIONS_OPERATORS :
            typeName \in CALC_MUTATIONS_OPERATORS[j].supportedTypes } }

InTable(operator) ==
    \E i \in DOMAIN CALC_MUTATIONS_OPERATORS : CALC_MUTATIONS_OPERATORS[i].name = operator

SupportedTypesOf(operator) ==
    CALC_MUTATIONS_OPERATORS[CHOOSE i \in DOMAIN CALC_MUTATIONS_OPERATORS :
                                CALC_MUTATIONS_OPERATORS[i].name = operator].supportedTypes

\* the field declares the operator at index i; the operator is in the table
\* and its supported types do not include the field's type
Unsupported(f, i) ==
    /\ i \in DOMAIN f.calcMutationOperators
    /\ InTable(f.calcMutationOperators[i])
    /\ typeOf(f) \notin SupportedTypesOf(f.calcMutationOperators[i])

CitesAllowedOperators(f, operator) ==
    \E k \in DOMAIN messages :
        /\ messages[k].severity = "error"
        /\ messages[k].text = "Calc mutation operator is not supported on type (supported operators)."
        /\ messages[k].location = astNode(f)
        /\ messages[k].args[1] = operator /\ messages[k].args[2] = typeOf(f)
        /\ Range(messages[k].args[3]) = AllowedFor(typeOf(f))

ListError(f) ==
    LET onList(m) == /\ m.severity = "error"
                     /\ m.text = "Calc mutations are not supported on list fields."
                     /\ m.location = astNode(f)
    IN  CountMessages(onList) = 1

NoOperatorsError(f) ==
    LET none(m) == /\ m.severity = "error"
                   /\ m.text = "does not support any calc mutation operators."
                   /\ m.location = astNode(f) /\ m.args = <<typeOf(f)>>
        perOperator(m) ==
                   /\ m.text = "Calc mutation operator is not supported on type (supported operators)."
                   /\ m.location = astNode(f)
    IN  CountMessages(none) = 1 /\ CountMessages(perOperator) = 0

\* C6 as stated: a validated non-list field that declares an operator of the
\* table whose supported types do not include the field's type has an error
\* citing the operators allowed for that type; a validated list field that
\* declares any operator has the 'not supported on list fields' error.
C6_UnsupportedOperatorCitesAllowed ==
    \A f \in AllFields : HasBeenValidated(f) =>
        /\ ~f.isList =>
            \A i \in DOMAIN f.calcMutationOperators :
                Unsupported(f, i) => CitesAllowedOperators(f, f.calcMutationOperators[i])
        /\ (f.isList /\ f.calcMutationOperators # <<>>) => ListError(f)

\* C6 amended: the error citing the allowed operators is added when at least
\* one operator of the table supports the field's type and every operator
\* the field declares before this one is in the table; when no operator of
\* the table supports the type, the field has instead one 'does not support
\* any calc mutation operators' error and no error per operator. The list
\* part is as stated.
C6_UnsupportedOperatorOrTypeReported ==
    \A f \in AllFields : HasBeenValidated(f) =>
        /\ (~f.isList /\ AllowedFor(typeOf(f)) # {}) =>
            \A i \in DOMAIN f.calcMutationOperators :
                (Unsupported(f, i) /\ \A j \in 1..(i-1) : InTable(f.calcMutationOperators[j]))
                    => CitesAllowedOperators(f, f.calcMutationOperators[i])
        /\ (~f.isList /\ AllowedFor(typeOf(f)) = {} /\ f.calcMutationOperators # <<>>) =>
            NoOperatorsError(f)
        /\ (f.isList /\ f.calcMutationOperators # <<>>) => ListError(f)

\* a String field declaring ADD has been validated, and so has a list field
\* declaring an operator
C6_Witness ==
    \E f \in AllFields :
        /\ HasBeenValidated(f) /\ ~f.isList /\ typeOf(f) = "String"
        /\ \E i \in DOMAIN f.calcMutationOperators :
            /\ Unsupported(f, i)
            /\ CitesAllowedOperators(f, f.calcMutationOperators[i])

----------------------------------------------------------------------------
(* C5 *)

HasCompiled == compiled.kind = "compiled"

\* a reference that is neither a list nor a relation, to a root entity type
\* that has a key field
IsToOneReference(f) ==
    /\ f.isReference /\ ~f.isList /\ ~f.isRelation
    /\ isRootEntityType(typeOf(f)) /\ keyField(typeOf(f)) # Undefined

\* the node that reads the key of a candidate bound to the item variable
CandidateKeyNode(f) ==
    LET key == keyField(typeOf(f))
        item == VariableQueryNode(f.name)
    IN  IF key.isSystemField /\ key.name = ID_FIELD
        THEN RootEntityIDQueryNode(item)
        ELSE FieldQueryNode(item, key)

\* C5: the node compiled for a non-list reference field is a conditional on
\* the stored key being null, whose null branch is the constant null (no
\* lookup node) and whose other branch is the first element of the referenced
\* type's entities filtered by (candidate key != null AND candidate key ==
\* stored key), capped at one result.
C5_ReferenceLookupGuardedByNullKey ==
    (HasCompiled /\ IsToOneReference(compiled.field)) =>
        LET f == compiled.field
            n == compiled.node
            storedKey == FieldQueryNode(compiled.sourceNode, f)
        IN  /\ n.kind = "Conditional"
            /\ n.condition = TypeCheckQueryNode(storedKey, "NULL")
            /\ n.expr1 = NullQueryNode
            /\ n.expr2.kind = "FirstOfList"
            /\ n.expr2.listNode.kind = "TransformList"
            /\ n.expr2.listNode.listNode = EntitiesQueryNode(typeOf(f))
            /\ n.expr2.listNode.maxCount = 1
            /\ n.expr2.listNode.itemVariable = VariableQueryNode(f.name)
            /\ n.expr2.listNode.filterNode.kind = "BinaryOperation"
            /\ n.expr2.listNode.filterNode.operator = "AND"
            /\ n.expr2.listNode.filterNode.lhs =
                    BinaryOperationQueryNode(CandidateKeyNode(f), "UNEQUAL", NullQueryNode)
            /\ n.expr2.listNode.filterNode.rhs =
                    BinaryOperationQueryNode(CandidateKeyNode(f), "EQUAL", storedKey)

C5_Witness ==
    /\ HasCompiled /\ IsToOneReference(compiled.field)
    /\ compiled.node.kind = "Conditional"
    /\ compiled.node.expr2.listNode.maxCount = 1

----------------------------------------------------------------------------
(* C7 *)

\* F is a list relation between root entity types, and no field of its
\* target type names F as its inverse
IsUnnamedListRelation(F) ==
    /\ F.isList /\ F.isRelation
    /\ isRootEntityType(F.declaringType) /\ isRootEntityType(typeOf(F))
    /\ \A g \in Range(fieldsOf(typeOf(F))) :
            ~(g.inverseOfFieldName = F.name /\ typeOf(g) = F.declaringType)

\* the bare edge-follow node on the from side of the one-sided relation of F
OneSidedFollowEdge(F, sourceNode) ==
    [kind |-> "FollowEdge", sourceEntityNode |-> sourceNode,
     relationSide |->
        [kind |-> "RelationSide", side |-> "from",
         relation |-> [fromType |-> F.declaringType, fromField |-> F,
                       toType |-> typeOf(F), toField |-> Undefined]]]

\* C7 as stated: compiling a list relation field F that no field of its
\* target type names as inverse yields the bare edge-follow node on the from
\* side of the relation (T, F, U, no toField), and leaves the model, so the
\* fields of U, unchanged.
C7_UnnamedListRelationIsFromSide ==
    [][ (compiled' # compiled /\ IsUnnamedListRelation(compiled'.field)) =>
            /\ compiled'.node = OneSidedFollowEdge(compiled'.field, compiled'.sourceNode)
            /\ types' = types ]_vars

\* C7 amended: the same for a field F whose own declared inverse, if any,
\* does not resolve to a field of its target type.
C7_OneSidedListRelationIsFromSide ==
    [][ (compiled' # compiled /\ IsUnnamedListRelation(compiled'.field)
            /\ DeclaresNoResolvingInverse(compiled'.field)) =>
            /\ compiled'.node = OneSidedFollowEdge(compiled'.field, compiled'.sourceNode)
            /\ types' = types ]_vars

C7_Witness ==
    /\ HasCompiled /\ IsUnnamedListRelation(compiled.field)
    /\ DeclaresNoResolvingInverse(compiled.field)
    /\ compiled.node.kind = "FollowEdge"
    /\ \E g \in Range(fieldsOf(typeOf(compiled.field))) :
            g.isRelation /\ typeOf(g) = compiled.field.declaringType

----------------------------------------------------------------------------
(* C10 *)

IsIdentityField(f) ==
    f.isSystemField /\ f.name = ID_FIELD /\ isRootEntityType(f.declaringType)

BetweenRootEntities(f) ==
    isRootEntityType(f.declaringType) /\ isRootEntityType(typeOf(f))

IsFollowEdge(n, f, s) ==
    /\ n.kind = "FollowEdge" /\ n.sourceEntityNode = s
    /\ f \in {n.relationSide.relation.fromField, n.relationSide.relation.toField}

IsReferenceLookup(n, f, s) ==
    /\ n.kind = "Conditional"
    /\ n.condition = TypeCheckQueryNode(FieldQueryNode(s, f), "NULL")
    /\ n.expr2.kind = "FirstOfList"
    /\ n.expr2.listNode.kind = "TransformList"
    /\ n.expr2.listNode.listNode = EntitiesQueryNode(typeOf(f))

IsObjectGuard(n, f, s) ==
    /\ n.kind = "Conditional"
    /\ n.condition = TypeCheckQueryNode(FieldQueryNode(s, f), "OBJECT")
    /\ n.expr1 = FieldQueryNode(s, f)
    /\ n.expr2 = EmptyObjectQueryNode

IsListGuard(n, f, s) ==
    /\ n.kind = "Conditional"
    /\ n.condition = TypeCheckQueryNode(FieldQueryNode(s, f), "LIST")
    /\ n.expr1 = FieldQueryNode(s, f)
    /\ n.expr2 = ListQueryNode(<<>>)

\* the node is the one of the rule: 1 list relation, 2 scalar relation,
\* 3 reference, 4 system identity field, 5 entity extension guard, 6 list
\* guard, 7 direct read. The relation rules throw unless the field is
\* declared on and targets a root entity type, the reference rule unless the
\* target is a root entity type with a key field.
IsNodeOfRule(rule, n, f, s) ==
    CASE rule = 1 -> IF BetweenRootEntities(f) THEN IsFollowEdge(n, f, s) ELSE Thrown(n)
      [] rule = 2 -> IF BetweenRootEntities(f)
                     THEN n.kind = "FirstOfList" /\ IsFollowEdge(n.listNode, f, s)
                     ELSE Thrown(n)
      [] rule = 3 -> IF isRootEntityType(typeOf(f)) /\ keyField(typeOf(f)) # Undefined
                     THEN IsReferenceLookup(n, f, s)
                     ELSE Thrown(n)
      [] rule = 4 -> n = RootEntityIDQueryNode(s)
      [] rule = 5 -> IsObjectGuard(n, f, s)
      [] rule = 6 -> IsListGuard(n, f, s)
      [] rule = 7 -> n = FieldQueryNode(s, f)

\* the rule in the order of the claim
ClaimedRule(f) ==
    IF f.isList /\ f.isRelation THEN 1
    ELSE IF f.isRelation THEN 2
    ELSE IF f.isReference THEN 3
    ELSE IF IsIdentityField(f) THEN 4
    ELSE IF isEntityExtensionType(typeOf(f)) THEN 5
    ELSE IF f.isList THEN 6
    ELSE 7

\* the list guard right after the list relation rule
AmendedRule(f) ==
    IF f.isList /\ f.isRelation THEN 1
    ELSE IF f.isList THEN 6
    ELSE IF f.isRelation THEN 2
    ELSE IF f.isReference THEN 3
    ELSE IF IsIdentityField(f) THEN 4
    ELSE IF isEntityExtensionType(typeOf(f)) THEN 5
    ELSE 7

\* C10 as stated: for every combination of flags the node compiled is the one
\* of the first applicable rule in the order list relation, scalar relation,
\* reference, system identity field, entity extension guard, list guard,
\* direct read; so a list reference compiles to the reference lookup and a
\* list of entity extension type to the object guard.
C10_RulesInClaimedOrder ==
    HasCompiled =>
        IsNodeOfRule(ClaimedRule(compiled.field), compiled.node, compiled.field,
                     compiled.sourceNode)

\* C10 amended: the order is list relation, list guard for every other list
\* field, scalar relation, reference, system identity field, entity extension
\* guard, direct read; so a list reference and a list of entity extension
\* type both compile to the list guard.
C10_ListGuardBeforeScalarRules ==
    HasCompiled =>
        IsNodeOfRule(AmendedRule(compiled.field), compiled.node, compiled.field,
                     compiled.sourceNode)

\* a list field that is a reference has been compiled to the list guard
C10_Witness ==
    /\ HasCompiled
    /\ compiled.field.isList /\ compiled.field.isReference /\ ~compiled.field.isRelation
    /\ IsListGuard(compiled.node, compiled.field, compiled.sourceNode)

----------------------------------------------------------------------------
(* C9 *)

ClaimedMethods ==
    {"generate", "generateForRootEntityType", "generateForEntityExtensionType",
     "generateForChildEntityType"}

\* what the claimed methods have returned for the type so far
ObjectsReturnedFor(calls, type) ==
    { call[3] : call \in { c \in calls : c[1] \in ClaimedMethods /\ c[2] = type } }

MemoOnlyGrows ==
    \A key \in DOMAIN generator.memo :
        key \in DOMAIN generator'.memo /\ generator'.memo[key] = generator.memo[key]

\* C9: on one generator, every call of generate / generateForRootEntityType /
\* generateForEntityExtensionType / generateForChildEntityType (the calls made
\* while the fields of an input type are generated included) returns, for one
\* type, the object the first call for that type returned; a step only adds
\* entries to the memo and never replaces one.
C9_SameObjectPerType ==
    [][ /\ MemoOnlyGrows
        /\ \A type \in DOMAIN types : Cardinality(ObjectsReturnedFor(returned', type)) <= 1
        /\ \A type \in DOMAIN types : ObjectsReturnedFor(returned, type) \subseteq ObjectsReturnedFor(returned', type)
      ]_vars

\* the entity extension type was asked for directly, through generate, and
\* by the fields of the root entity type and of the child entity type
C9_Witness ==
    /\ \E id \in DOMAIN generator.heap :
          /\ generator.heap[id].type = "O"
          /\ generator.heap[id].resolved
    /\ \E id \in DOMAIN generator.heap :
          /\ generator.heap[id].type = "C"
          /\ generator.heap[id].resolved
          /\ \E i \in DOMAIN generator.heap[id].fields :
                generator.heap[id].fields[i].class = "UpdateEntityExtensionInputField"
    /\ \E id \in DOMAIN generator.heap :
          /\ <<"generate", "E", id>> \in returned
          /\ <<"generateForEntityExtensionType", "E", id>> \in returned
    /\ \E id \in DOMAIN generator.heap :
          /\ <<"generate", "C", id>> \in returned
          /\ <<"generateForChildEntityType", "C", id>> \in returned

----------------------------------------------------------------------------
(* C4 *)

ListSetterClasses == {"BasicListUpdateInputField", "UpdateValueObjectListInputField"}

AppliedToListSetterWithNull(operation) ==
    /\ applied # NoCall
    /\ applied.kind = operation
    /\ applied.input.class \in ListSetterClasses
    /\ applied.value = JSNull

\* C4: given null, getProperties of a list setter (BasicListUpdateInputField,
\* UpdateValueObjectListInputField) returns exactly one set-field node, whose
\* literal is the empty list, and collectAffectedFields given null adds the
\* field to the set of affected fields.
C4_NullToListSetterIsEmptyList ==
    /\ AppliedToListSetterWithNull("getProperties") =>
          /\ applied.result.fault = NoFault
          /\ applied.result.value =
                << SetFieldQueryNode(applied.input.field, LiteralQueryNode(JSArray(<<>>))) >>
    /\ AppliedToListSetterWithNull("collectAffectedFields") =>
          /\ applied.result.fault = NoFault
          /\ applied.result.fields = applied.fields \cup {applied.input.field}

C4_Witness ==
    /\ AppliedToListSetterWithNull("getProperties")
    /\ applied.input.class = "UpdateValueObjectListInputField"
    /\ Len(applied.result.value) = 1

----------------------------------------------------------------------------
(* C8 *)

\* a reference field to a root entity type that has a key field
IsKeyedReference(field) ==
    /\ field.isReference
    /\ ~field.isSystemField
    /\ isRootEntityType(typeOf(field))
    /\ keyField(typeOf(field)) # Undefined

InputsFor(object, field) ==
    { i \in DOMAIN object.fields : object.fields[i].field = field }

\* C8: in a generated update shape, a reference field to a root entity type
\* with a key field has exactly one input, a BasicUpdateInputField whose
\* input type is the scalar type of the key field of the referenced type;
\* its getProperties returns one set-field node whose literal is the value
\* it was given, and nothing that reads the referenced entity.
C8_ReferenceIsSetterOfKeyType ==
    /\ \A id \in DOMAIN generator.heap :
          generator.heap[id].resolved =>
             \A field \in Range(fieldsOf(generator.heap[id].type)) :
                IsKeyedReference(field) =>
                   /\ Cardinality(InputsFor(generator.heap[id], field)) = 1
                   /\ \A i \in InputsFor(generator.heap[id], field) :
                         /\ generator.heap[id].fields[i].class = "BasicUpdateInputField"
                         /\ generator.heap[id].fields[i].inputType =
                               graphQLScalarType(typeOf(keyField(typeOf(field))))
    /\ ( /\ applied # NoCall
         /\ applied.kind = "getProperties"
         /\ IsKeyedReference(applied.input.field) )
       => /\ applied.result.fault = NoFault
          /\ applied.result.value =
                << SetFieldQueryNode(applied.input.field, LiteralQueryNode(applied.value)) >>

C8_Witness ==
    /\ applied # NoCall
    /\ applied.kind = "getProperties"
    /\ IsKeyedReference(applied.input.field)
    /\ applied.input.field.isList
    /\ typeOf(keyField("R")) = "Int"
    /\ applied.value = JSNull
    /\ generator.heap[applied.of].name = getUpdateAllInputTypeName("D")

----------------------------------------------------------------------------
(* C11 *)

\* the system identity field has been compiled, declared on a type of that kind
CompiledIdentityFieldOf(k) ==
    /\ HasCompiled
    /\ compiled.field.isSystemField /\ compiled.field.name = ID_FIELD
    /\ kind(compiled.field.declaringType) = k

\* C11 as stated: the system identity field compiles to the identity
\* accessor node, not to a field access node, when it is declared on a root
\* entity type and also when it is declared on a child entity type.
C11_IdentityAccessorOnRootAndChild ==
    (CompiledIdentityFieldOf(ROOT_ENTITY) \/ CompiledIdentityFieldOf(CHILD_ENTITY)) =>
        compiled.node = RootEntityIDQueryNode(compiled.sourceNode)

\* C11 amended: the system identity field compiles to the identity accessor
\* node when it is declared on a root entity type, and to the ordinary field
\* access node when it is declared on a child entity type.
C11_IdentityAccessorOnRootOnly ==
    /\ CompiledIdentityFieldOf(ROOT_ENTITY) =>
          compiled.node = RootEntityIDQueryNode(compiled.sourceNode)
    /\ CompiledIdentityFieldOf(CHILD_ENTITY) =>
          compiled.node = FieldQueryNode(compiled.sourceNode, compiled.field)

C11_Witness ==
    /\ CompiledIdentityFieldOf(CHILD_ENTITY)
    /\ compiled.node.kind = "Field"

----------------------------------------------------------------------------
(* C12 *)

\* the operators the field declares that are not in the table, in order
UnknownOperatorsOf(f) ==
    { i \in DOMAIN f.calcMutationOperators : ~InTable(f.calcMutationOperators[i]) }

\* the field was the last one validated
ValidatedLast(f) == position > 0 /\ AllFieldsSeq[position] = f

\* validating the field threw the error that names its first unknown operator
ThrewUnknownOperator(f) ==
    /\ ValidatedLast(f)
    /\ UnknownOperatorsOf(f) # {}
    /\ fault = [kind |-> "Error", text |-> "Unknown calc mutation operator",
                args |-> << f.calcMutationOperators[
                              CHOOSE i \in UnknownOperatorsOf(f) :
                                  \A j \in UnknownOperatorsOf(f) : i <= j] >>]

\* no message of the context names an operator the field declares that is
\* not in the table
UnknownOperatorNotRecorded(f) ==
    \A k \in DOMAIN messages :
        (messages[k].location.field = f /\ messages[k].args # <<>>) =>
            \A i \in UnknownOperatorsOf(f) : messages[k].args[1] # f.calcMutationOperators[i]

\* an error is thrown only by a field that declares an unknown operator
OnlyUnknownOperatorThrows ==
    fault # NoFault =>
        /\ position > 0
        /\ UnknownOperatorsOf(AllFieldsSeq[position]) # {}

\* C12 as stated: validating a field that declares an operator absent from
\* the table throws, and records no message for it, whether or not the field
\* is a list and whatever its type; nothing else about calc mutations throws.
C12_UnknownOperatorAlwaysThrows ==
    /\ \A f \in AllFields :
          (HasBeenValidated(f) /\ UnknownOperatorsOf(f) # {}) =>
              ThrewUnknownOperator(f) /\ UnknownOperatorNotRecorded(f)
    /\ OnlyUnknownOperatorThrows

\* C12 amended: it throws when the field is not a list and at least one
\* operator of the table supports its type; a list field has the 'not
\* supported on list fields' error instead, a non-list field whose type no
\* operator supports the 'does not support any calc mutation operators'
\* error, and neither throws. The unknown operator is never recorded as a
\* message, and nothing else about calc mutations throws.
C12_UnknownOperatorThrowsWhenLoopIsReached ==
    /\ \A f \in AllFields :
          (HasBeenValidated(f) /\ UnknownOperatorsOf(f) # {}) =>
              /\ UnknownOperatorNotRecorded(f)
              /\ (~f.isList /\ AllowedFor(typeOf(f)) # {}) => ThrewUnknownOperator(f)
              /\ f.isList => (ListError(f) /\ (ValidatedLast(f) => fault = NoFault))
              /\ (~f.isList /\ AllowedFor(typeOf(f)) = {}) =>
                    (NoOperatorsError(f) /\ (ValidatedLast(f) => fault = NoFault))
    /\ OnlyUnknownOperatorThrows

\* an Int field declaring ADD and then an unknown operator has thrown
C12_Witness ==
    \E f \in AllFields :
        /\ ThrewUnknownOperator(f)
        /\ typeOf(f) = "Int"
        /\ Len(f.calcMutationOperators) = 2
        /\ UnknownOperatorsOf(f) = {2}

----------------------------------------------------------------------------
(* C13 *)

\* the messages of the relation, reference and nesting (root entity, entity
\* extension, child entity) checks
DownstreamTexts ==
    {"@reference and @relation cannot be combined.",
     "is a root entity type and cannot be embedded. Consider adding @reference.",
     "is a root entity type and cannot be embedded. Consider adding @reference or @relation.",
     "Relations can only be defined on root entity types.",
     "cannot be used with @relation because it is not a root entity type.",
     "does not exist on type", "has named type but should be of type",
     "does not have the @relation directive.", "should not declare inverseOf itself.",
     "define separate relations.", "Multiple fields declare inverseOf to",
     "cannot be used as @reference type because is not a root entity type.",
     "@reference is not supported with list types.",
     "cannot be used as @reference type because it does not have a field annotated with @key.",
     "is an entity extension type and cannot be used within value object types.",
     "is an entity extension type and cannot be used in a list.",
     "is a child entity type and cannot be used within value object types.",
     "is a child entity type and can only be used in a list."}

\* the texts of the messages of those checks that are located on the field
DownstreamMessagesOn(f) ==
    { messages[k].text : k \in { i \in DOMAIN messages :
        messages[i].location.field = f /\ messages[i].text \in DownstreamTexts } }

TypeNotFoundOn(f) ==
    \E k \in DOMAIN messages :
        /\ messages[k].severity = "error" /\ messages[k].text = "Type not found."
        /\ messages[k].location.field = f /\ messages[k].args = <<f.typeName>>

\* the messages of those checks that do not look at the target type
FlagMessagesOf(f) ==
    (IF f.isReference /\ f.isRelation
     THEN {"@reference and @relation cannot be combined."} ELSE {})
    \cup
    (IF f.isRelation /\ ~isRootEntityType(f.declaringType)
     THEN {"Relations can only be defined on root entity types."} ELSE {})

\* C13 as stated: a validated field whose type name does not resolve has the
\* 'Type not found' error and no message of the relation, reference and
\* nesting checks, whatever its declaring type and its flags.
C13_UnresolvedTypeSkipsDownstreamChecks ==
    \A f \in AllFields : (HasBeenValidated(f) /\ ~hasValidType(f)) =>
        TypeNotFoundOn(f) /\ DownstreamMessagesOn(f) = {}

\* C13 amended: such a field has the 'Type not found' error and, of those
\* checks, only the messages that do not look at the target type: '@reference
\* and @relation cannot be combined' when it has both flags, and 'Relations
\* can only be defined on root entity types' when it is a relation declared
\* on another kind of type.
C13_UnresolvedTypeSkipsTargetTypeChecks ==
    \A f \in AllFields : (HasBeenValidated(f) /\ ~hasValidType(f)) =>
        TypeNotFoundOn(f) /\ DownstreamMessagesOn(f) = FlagMessagesOf(f)

\* a list field that is a reference, not a relation, of a type that does not
\* resolve, declared on a value object type, has been validated
C13_Witness ==
    \E f \in AllFields :
        /\ HasBeenValidated(f) /\ ~hasValidType(f)
        /\ f.isReference /\ ~f.isRelation /\ f.isList
        /\ isValueObjectType(f.declaringType)
        /\ TypeNotFoundOn(f) /\ DownstreamMessagesOn(f) = {}

----------------------------------------------------------------------------
(* C14 *)

\* a relation between root entity types that declares no inverse and that no
\* field of its target type names as its inverse
IsOneSidedRelation(F) ==
    /\ F.isRelation /\ F.inverseOfFieldName = UndefName
    /\ isRootEntityType(F.declaringType) /\ isRootEntityType(typeOf(F))
    /\ \A g \in Range(fieldsOf(typeOf(F))) : inverseOf(g) # F

\* the fields of the target type, other than F, that are relations back to
\* the declaring type of F and name no inverse
OtherMatchingRelations(F) ==
    { g \in Range(fieldsOf(typeOf(F))) :
        /\ g # F
        /\ g.isRelation /\ typeOf(g) = F.declaringType
        /\ g.inverseOfFieldName = UndefName }

\* the 'define separate relations' warnings located on F
SeparateRelationsWarningsOn(F) ==
    { k \in DOMAIN messages :
        /\ messages[k].severity = "warn" /\ messages[k].text = "define separate relations."
        /\ messages[k].location = astNode(F) }

\* C14: a validated relation field F with no explicit inverse, which no field
\* names as its inverse, has the 'define separate relations' warning exactly
\* when exactly one field other than F on the target type is a relation back
\* to the declaring type of F that names no inverse; with no such field there
\* is no warning, also when the target type of F is its own declaring type.
C14_WarningIffOneOtherMatchingRelation ==
    \A F \in AllFields : (HasBeenValidated(F) /\ IsOneSidedRelation(F)) =>
        /\ SeparateRelationsWarningsOn(F) # {} <=> Cardinality(OtherMatchingRelations(F)) = 1
        /\ OtherMatchingRelations(F) = {} => SeparateRelationsWarningsOn(F) = {}

\* a relation of a type to itself, with no other relation on that type, has
\* been validated and is warned to define a relation separate from itself
C14_Witness ==
    \E F \in AllFields :
        /\ HasBeenValidated(F) /\ IsOneSidedRelation(F)
        /\ typeOf(F) = F.declaringType
        /\ OtherMatchingRelations(F) = {}
        /\ \E k \in SeparateRelationsWarningsOn(F) :
              messages[k].args = <<F.declaringType, F.name>>

----------------------------------------------------------------------------
(* C15 *)

\* a relation between root entity types that names an inverse
NamesExplicitInverse(B) ==
    /\ B.isRelation /\ B.inverseOfFieldName # UndefName
    /\ isRootEntityType(B.declaringType) /\ isRootEntityType(typeOf(B))

\* the field B names, if the target type has it
NamedInverse(B) == getField(typeOf(B), B.inverseOfFieldName)

\* the errors located on the inverseOf declaration of B
InverseErrorsOn(B) ==
    { k \in DOMAIN messages :
        messages[k].severity = "error" /\ messages[k].location = astNodeOf(B, "inverseOf") }

\* the named field exists, is a relation and targets the declaring type of B
IsRelationBack(B) ==
    /\ NamedInverse(B) # Undefined
    /\ NamedInverse(B).isRelation
    /\ typeOf(NamedInverse(B)) = B.declaringType

\* C15 as stated: validation of B adds an error exactly when the named field
\* does not exist, is not a relation, does not target the declaring type of
\* B, or itself names an inverse, resolving or not.
C15_ErrorIffRequirementViolated ==
    \A B \in AllFields : (HasBeenValidated(B) /\ NamesExplicitInverse(B)) =>
        (InverseErrorsOn(B) # {}
            <=> ~(IsRelationBack(B) /\ NamedInverse(B).inverseOfFieldName = UndefName))

\* C15 amended: the fourth requirement is that the inverse the named field
\* declares does not resolve to a field; a named field whose own inverse name
\* resolves to nothing adds no error to B. B has at most one such error.
C15_ErrorIffResolvedRequirementViolated ==
    \A B \in AllFields : (HasBeenValidated(B) /\ NamesExplicitInverse(B)) =>
        /\ InverseErrorsOn(B) # {}
              <=> ~(IsRelationBack(B) /\ inverseOf(NamedInverse(B)) = Undefined)
        /\ Cardinality(InverseErrorsOn(B)) <= 1

\* B names a relation back to its type whose own inverse name does not
\* resolve, and has been validated without an error on its inverse
C15_Witness ==
    \E B \in AllFields :
        /\ HasBeenValidated(B) /\ NamesExplicitInverse(B)
        /\ IsRelationBack(B)
        /\ NamedInverse(B).inverseOfFieldName # UndefName
        /\ inverseOf(NamedInverse(B)) = Undefined
        /\ InverseErrorsOn(B) = {}

----------------------------------------------------------------------------
(* C16 *)

\* the input type objects whose fields have been read
ResolvedInputTypes == { id \in DOMAIN generator.heap : generator.heap[id].resolved }

IsUpdateAllShape(object) == object.name = getUpdateAllInputTypeName(object.type)

AppliedToFilterInput(operation) ==
    /\ applied # NoCall
    /\ applied.kind = operation
    /\ applied.input.class = "UpdateFilterInputField"

\* C16: in the update shape of a root or child entity type the system
\* identity field has exactly one input, an UpdateFilterInputField, and in
\* the update-all shape none; every other system field has no input. For
\* every value, getProperties of the filter input returns no node and
\* collectAffectedFields leaves the set of fields as it was.
C16_IdentityFieldIsFilterOnly ==
    /\ \A id \in ResolvedInputTypes :
          \A f \in Range(fieldsOf(generator.heap[id].type)) : f.isSystemField =>
              IF /\ f.name = ID_FIELD
                 /\ ~IsUpdateAllShape(generator.heap[id])
                 /\ (isRootEntityType(f.declaringType) \/ isChildEntityType(f.declaringType))
              THEN /\ Cardinality(InputsFor(generator.heap[id], f)) = 1
                   /\ \A i \in InputsFor(generator.heap[id], f) :
                         generator.heap[id].fields[i].class = "UpdateFilterInputField"
              ELSE InputsFor(generator.heap[id], f) = {}
    /\ AppliedToFilterInput("getProperties") =>
          applied.result = [fault |-> NoFault, value |-> <<>>]
    /\ AppliedToFilterInput("collectAffectedFields") =>
          applied.result = [fault |-> NoFault, fields |-> applied.fields]

\* the filter input of a child entity type, which also has the other system
\* fields, was asked to collect into a set that holds another field
C16_Witness ==
    /\ AppliedToFilterInput("collectAffectedFields")
    /\ isChildEntityType(applied.input.field.declaringType)
    /\ \E f \in Range(fieldsOf("D")) : f.isSystemField /\ f.name # ID_FIELD
    /\ applied.fields = {getField("D", "p")}
    /\ applied.value = JSString("a")

----------------------------------------------------------------------------
(* C17 *)

AppliedToValueObjectList(operation) ==
    /\ applied # NoCall
    /\ applied.kind = operation
    /\ applied.input.class = "UpdateValueObjectListInputField"

\* a value was supplied and it is neither null nor a list
IsSuppliedNonList(value) == value.kind \notin {"undefined", "null", "array"}

\* the literal is the list of the items, each as the create input of the
\* value object type of the field prepares it
IsPreparedListOf(literal, field, items) ==
    /\ literal.kind = "Literal"
    /\ literal.value.kind = "array"
    /\ Len(literal.value.items) = Len(items)
    /\ \A i \in DOMAIN items :
          literal.value.items[i] = [kind |-> "prepared", type |-> typeOf(field), value |-> items[i]]

\* C17: getProperties of the value object list setter returns one set-field
\* node with the empty list for null and, for a list, with the list of its
\* elements each prepared by the create input of the nested type; for a
\* supplied value that is not a list it throws and returns no node.
\* collectAffectedFields throws for exactly the values getProperties throws
\* for. (undefined, no value supplied, is passed through by both.)
C17_ValueObjectListCoercion ==
    /\ AppliedToValueObjectList("getProperties") =>
          /\ applied.value = JSNull =>
                applied.result.value =
                    << SetFieldQueryNode(applied.input.field, LiteralQueryNode(JSArray(<<>>))) >>
          /\ isArray(applied.value) =>
                /\ applied.result.fault = NoFault
                /\ Len(applied.result.value) = 1
                /\ applied.result.value[1].kind = "SetField"
                /\ applied.result.value[1].field = applied.input.field
                /\ IsPreparedListOf(applied.result.value[1].valueNode, applied.input.field,
                                    applied.value.items)
          /\ IsSuppliedNonList(applied.value) =>
                /\ Thrown(applied.result.fault)
                /\ applied.result.fault.args = <<applied.input.name, typeofValue(applied.value)>>
                /\ applied.result.value = <<>>
          /\ applied.result.fault # NoFault <=> IsSuppliedNonList(applied.value)
    /\ AppliedToValueObjectList("collectAffectedFields") =>
          applied.result.fault # NoFault <=> IsSuppliedNonList(applied.value)

\* a list of two elements was given to getProperties of a value object list
C17_Witness ==
    /\ AppliedToValueObjectList("getProperties")
    /\ isArray(applied.value)
    /\ Len(applied.value.items) = 2
    /\ applied.value.items[1] # applied.value.items[2]
    /\ applied.result.fault = NoFault

----------------------------------------------------------------------------
(* C18 *)

\* an input as the claim describes it: its class, the name of its field and,
\* for a calc mutation input, its operator
Described(class, f, operator) == <<class, f.name, operator>>

DescriptionOf(input) ==
    Described(input.class, input.field,
              IF input.class = "CalcMutationInputField" THEN input.operator ELSE "-")

\* the field is of none of the kinds of the claim
MatchesNoKind(f) ==
    /\ ~f.isSystemField
    /\ ~isScalarType(typeOf(f)) /\ ~isEnumType(typeOf(f)) /\ ~isValueObjectType(typeOf(f))
    /\ ~isEntityExtensionType(typeOf(f)) /\ ~isChildEntityType(typeOf(f))
    /\ ~f.isReference /\ ~f.isRelation

\* the inputs of one field in the update shape, by the kinds of the claim in
\* the order the claim lists them
ClaimedInputsOf(f) ==
    IF f.isSystemField
    THEN IF f.name = ID_FIELD
            /\ (isRootEntityType(f.declaringType) \/ isChildEntityType(f.declaringType))
         THEN << Described("UpdateFilterInputField", f, "-") >>
         ELSE <<>>
    ELSE IF isScalarType(typeOf(f)) \/ isEnumType(typeOf(f))
    THEN IF f.isList
         THEN << Described("BasicListUpdateInputField", f, "-") >>
         ELSE << Described("BasicUpdateInputField", f, "-") >>
              \o [i \in DOMAIN f.calcMutationOperators |->
                    Described("CalcMutationInputField", f, f.calcMutationOperators[i])]
    ELSE IF isValueObjectType(typeOf(f))
    THEN IF f.isList
         THEN << Described("UpdateValueObjectListInputField", f, "-") >>
         ELSE << Described("UpdateValueObjectInputField", f, "-") >>
    ELSE IF isEntityExtensionType(typeOf(f))
    THEN << Described("UpdateEntityExtensionInputField", f, "-") >>
    ELSE IF isChildEntityType(typeOf(f))
    THEN << Described("AddChildEntitiesInputField", f, "-"),
            Described("UpdateChildEntitiesInputField", f, "-"),
            Described("RemoveChildEntitiesInputField", f, "-") >>
    ELSE IF f.isReference
    THEN << Described("BasicUpdateInputField", f, "-") >>
    ELSE IF f.isRelation
    THEN IF f.isList
         THEN << Described("AddEdgesInputField", f, "-"),
                 Described("RemoveEdgesInputField", f, "-"),
                 Described("CreateAndAddEdgesInputField", f, "-") >>
         ELSE << Described("SetEdgeInputField", f, "-"),
                 Described("CreateAndSetEdgeInputField", f, "-") >>
    ELSE <<>>

RECURSIVE ClaimedInputs(_)
ClaimedInputs(fields) ==
    IF fields = <<>> THEN <<>>
    ELSE ClaimedInputsOf(Head(fields)) \o ClaimedInputs(Tail(fields))

\* C18: the inputs of a generated update shape (not the update-all shape)
\* are those of the fields of its type in declaration order, each non-system
\* field contributing the inputs of its kind in the order of the claim; and
\* the fields of a shape whose type has a field of none of the kinds cannot
\* be generated: the attempt throws.
C18_InputsInDeclarationOrder ==
    \A id \in DOMAIN generator.heap :
        /\ (generator.heap[id].resolved /\ ~IsUpdateAllShape(generator.heap[id])) =>
              [i \in DOMAIN generator.heap[id].fields |->
                    DescriptionOf(generator.heap[id].fields[i])]
                = ClaimedInputs(fieldsOf(generator.heap[id].type))
        /\ (\E f \in Range(fieldsOf(generator.heap[id].type)) : MatchesNoKind(f)) =>
              /\ ~generator.heap[id].resolved
              /\ Thrown(resolveFields(generator, id).fault)
              /\ resolveFields(generator, id).fault.text = "Field has an unexpected configuration"

\* the shape of a type with an identity field, a list of child entities and
\* a counter with two operators has been generated: seven inputs
C18_Witness ==
    \E id \in DOMAIN generator.heap :
        /\ generator.heap[id].resolved /\ ~IsUpdateAllShape(generator.heap[id])
        /\ Len(generator.heap[id].fields) = 7
        /\ generator.heap[id].fields[2].class = "AddChildEntitiesInputField"
        /\ generator.heap[id].fields[7].class = "CalcMutationInputField"
        /\ generator.heap[id].fields[7].operator = "MULTIPLY"

----------------------------------------------------------------------------
(* C19 *)

RelationInputClasses ==
    {"AddEdgesInputField", "RemoveEdgesInputField", "CreateAndAddEdgesInputField",
     "SetEdgeInputField", "CreateAndSetEdgeInputField"}

\* the inputs without the identity filter input and the relation inputs
WithoutFilterAndRelations(inputs) ==
    LET kept(input) == input.class \notin RelationInputClasses \cup {"UpdateFilterInputField"}
    IN  SelectSeq(inputs, kept)

\* the objects generateUpdateAllRootEntitiesInputType returned for the type
UpdateAllShapesOf(type) ==
    { call[3] : call \in { c \in returned :
        c[1] = "generateUpdateAllRootEntitiesInputType" /\ c[2] = type } }

\* C19: for a root entity type, the object generateUpdateAllRootEntitiesInputType
\* returns is one object, never the one generate or generateForRootEntityType
\* returns, and its inputs are those of the update shape, in the same order,
\* without the identity filter input and without the relation inputs.
C19_UpdateAllIsUpdateWithoutFilterAndRelations ==
    \A type \in DOMAIN types : isRootEntityType(type) =>
        /\ Cardinality(UpdateAllShapesOf(type)) <= 1
        /\ \A all \in UpdateAllShapesOf(type) : \A update \in ObjectsReturnedFor(returned, type) :
              /\ all # update
              /\ (generator.heap[all].resolved /\ generator.heap[update].resolved) =>
                    generator.heap[all].fields
                        = WithoutFilterAndRelations(generator.heap[update].fields)

\* both shapes of a type with an identity field and a list relation have
\* been generated: four inputs in the update shape, none in the update-all
\* shape
C19_Witness ==
    \E all \in UpdateAllShapesOf("D") : \E update \in ObjectsReturnedFor(returned, "D") :
        /\ generator.heap[all].resolved /\ generator.heap[update].resolved
        /\ Len(generator.heap[update].fields) = 4
        /\ generator.heap[update].fields[2].class = "AddEdgesInputField"
        /\ generator.heap[all].fields = <<>>

====
